---- MODULE Spec2Model ----
(***************************************************************************)
(* Model of the pod file browser's command-execution bridge                *)
(* (main-process IPC handlers and their helpers).                          *)
(*                                                                         *)
(* Text is modelled as sequences: a string of the program is a sequence   *)
(* of one-character strings, a Buffer is a sequence of byte values, and    *)
(* text decoded from a Buffer is a sequence of code points.                *)
(***************************************************************************)
EXTENDS Integers, Sequences, FiniteSets, TLC

(***************************************************************************)
(* Bounds of the model.                                                    *)
(***************************************************************************)
\* terminal events (spawn 'error', process 'close') delivered in one run
MaxEvents == 3
\* stderr 'data' chunks delivered in one run
MaxChunks == 2

(***************************************************************************)
(* Streaming upload channel: kubectlWriteFile and the uploadFile handler.  *)
(***************************************************************************)
VARIABLES
    upc,          \* per upload: "idle" (not called), "pending" (handler awaits), "done"
    settled,      \* per upload: the `settled` flag of kubectlWriteFile
    timer,        \* per upload: "none" | "pending" | "fired" | "cleared"
    stderr,       \* per upload: the accumulated `stderr` text (code points)
    kills,        \* per upload: number of proc.kill("SIGTERM") calls
    promise,      \* per upload: the promise kubectlWriteFile returned
    envelope,     \* per upload: what the uploadFile handler returned
    resolveCalls, \* per upload: calls of resolve()
    rejectCalls,  \* per upload: calls of reject()
    timerRuns,    \* per upload: runs of the watchdog callback
    firstEvent,   \* per upload: the first terminal event delivered, with the
                  \*   stderr chunks that had arrived before it
    received,     \* per upload: the stderr chunks delivered so far, in order
    closes,       \* per upload: the 'close' events delivered so far
    eventsLeft,   \* terminal events the environment may still deliver
    chunksLeft,   \* stderr chunks the environment may still deliver
    spawned       \* per upload: the arguments and environment of the child
                  \*   process kubectlWriteFile spawned

uvars == <<upc, settled, timer, stderr, kills, promise, envelope, resolveCalls,
           rejectCalls, timerRuns, firstEvent, received, closes, eventsLeft,
           chunksLeft, spawned>>

(***************************************************************************)
(* Operation facade: one invocation of an IPC handler built on kubectlExec.*)
(***************************************************************************)
VARIABLES
    op,           \* the handler invoked and its arguments
    opc,          \* "idle" (not invoked), "await" (suspended in kubectlExec), "done"
    pending,      \* the kubectlExec call the handler awaits
    log,          \* the kubectlExec calls that completed, in order, with outcomes
    result        \* how the handler completed: the envelope returned, or a throw

ovars == <<op, opc, pending, log, result>>

(***************************************************************************)
(* Credential locator: one call of findProxyKubeconfig.                    *)
(***************************************************************************)
VARIABLES
    lpc,          \* "idle" (not called), "done"
    lookup,       \* the call: the clusterId and the temporary directory it meets
    located       \* what the call returned and the filesystem calls it made

lvars == <<lpc, lookup, located>>

(***************************************************************************)
(* The main process: its environment and the temporary directory it finds. *)
(***************************************************************************)
VARIABLES
    host          \* process.env, and the state of the temporary directory

(***************************************************************************)
(* The renderer: the PodFsPage and the FileTree it mounts.                 *)
(***************************************************************************)
VARIABLES
    page,         \* PodFsPage: selectedPod, browsing, currentPath, and the
                  \*   number of FileTree instances mounted so far
    tree,         \* the state of the mounted FileTree, NoTree when none is
    inflight,     \* the ipc.invoke requests not yet answered, with the
                  \*   FileTree instance that issued each
    notice,       \* the last notification shown: Notifications.ok or .error
    offered       \* the local files handed to handleUpload so far

gvars == <<page, tree, inflight, notice, offered>>

(***************************************************************************)
(* The renderer: the FileViewer, and the PodFsDetails panel.               *)
(***************************************************************************)
VARIABLES
    viewer,          \* the state of the mounted FileViewer and its filePath
                     \*   prop, NoViewer when none is mounted
    viewerRequests,  \* the FileViewer's ipc.invoke requests not yet answered
    viewerMounts,    \* the number of FileViewer instances mounted so far
    panel,           \* PodFsDetails: the pod it shows and its state
    issued           \* the requests issued by the children of PodFsDetails

wvars == <<viewer, viewerRequests, viewerMounts, panel, issued>>

vars == <<uvars, ovars, lvars, host, gvars, wvars>>

\* What an action of the upload channel leaves alone, one of the facade and
\* one of the renderer.
notUpload == <<ovars, lvars, gvars, wvars>>
notOps == <<uvars, lvars, gvars, wvars>>
notRenderer == <<uvars, ovars, lvars, host, wvars>>
\* What an action of the FileViewer leaves alone, and one of PodFsDetails.
notViewer == <<uvars, ovars, lvars, host, page, tree, inflight, offered, panel, issued>>
notDetails == <<uvars, ovars, lvars, host, gvars, viewer, viewerRequests, viewerMounts>>

\* The upload calls of a run.
Uploads == {1, 2}

\* Exit codes of a 'close' event: <<>> is null (killed by a signal), <<n>> is n.
Null == <<>>

NoEvent == [kind |-> "none"]
NoEnvelope == [none |-> TRUE]
Fulfilled == [state |-> "fulfilled"]
Rejected(err) == [state |-> "rejected", error |-> err]

\* chunk.toString(): UTF-8 decoding of one Buffer on its own. A lead byte with
\* no continuation byte after it in the same Buffer, and a continuation byte
\* with no lead before it, each decode to U+FFFD.
RECURSIVE BufferToString(_)
BufferToString(bytes) ==
    IF bytes = <<>> THEN <<>>
    ELSE LET b == Head(bytes) IN
         IF b < 128 THEN <<b>> \o BufferToString(Tail(bytes))
         ELSE IF b >= 194 /\ b < 224 /\ Len(bytes) >= 2
                 /\ bytes[2] >= 128 /\ bytes[2] < 192
              THEN <<(b - 192) * 64 + (bytes[2] - 128)>>
                   \o BufferToString(Tail(Tail(bytes)))
              ELSE <<65533>> \o BufferToString(Tail(bytes))

\* An Error whose message is fixed text. A message is a record: its text, and
\* for a template literal the values interpolated into it.
ErrorOf(msg) == [message |-> [text |-> msg]]

\* (mutant) a failed exit is reported with the text of the timeout
UploadFailedError_SameText(code, text) ==
    [message |-> [text |-> "Upload timed out after 30 seconds"]]

\* new Error(`Upload failed (exit ${code}): ${stderr}`)
UploadFailedError(code, text) ==
    [message |-> [text |-> "Upload failed (exit ${code}): ${stderr}",
                  code |-> code, stderr |-> text]]

\* new Error("Upload timed out after 30 seconds")
UploadTimeoutError == ErrorOf("Upload timed out after 30 seconds")

\* catch (error) { message = error instanceof Error ? error.message : String(error);
\*                 return { success: false, error: message }; }
FailureEnvelope(err) == [success |-> FALSE, error |-> err.message]

\* The uploadFile handler after `await kubectlWriteFile(...)`: the envelope.
UploadEnvelope(p) ==
    IF p.state = "fulfilled" THEN [success |-> TRUE] ELSE FailureEnvelope(p.error)

\* The event is recorded as the first terminal event if none came before.
NoteEvent(u, ev) ==
    firstEvent' = [firstEvent EXCEPT ![u] =
                      IF @ = NoEvent THEN ev @@ [before |-> received[u]] ELSE @]

\* A settlement of upload u's promise; the awaiting handler then returns.
SettleUpload(u, outcome) ==
    \* only the first resolve() or reject() settles a promise
    /\ promise' = [promise EXCEPT ![u] = IF @.state = "pending" THEN outcome ELSE @]
    /\ envelope' = [envelope EXCEPT ![u] =
                       IF upc[u] = "pending" /\ promise[u].state = "pending"
                       THEN UploadEnvelope(outcome) ELSE @]
    /\ upc' = [upc EXCEPT ![u] = "done"]
    /\ resolveCalls' = [resolveCalls EXCEPT ![u] =
                           IF outcome.state = "fulfilled" THEN @ + 1 ELSE @]
    /\ rejectCalls' = [rejectCalls EXCEPT ![u] =
                          IF outcome.state = "rejected" THEN @ + 1 ELSE @]

(***************************************************************************)
(* Text helpers: the String methods the handlers use, on sequences of      *)
(* one-character strings.                                                  *)
(***************************************************************************)
Digits == {"0", "1", "2", "3", "4", "5", "6", "7", "8", "9"}

Letters == {"a", "b", "c", "d", "e", "f", "g", "h", "i", "j", "k", "l", "m",
    "n", "o", "p", "q", "r", "s", "t", "u", "v", "w", "x", "y", "z", "A",
    "B", "C", "D", "E", "F", "G", "H", "I", "J", "K", "L", "M", "N", "O",
    "P", "Q", "R", "S", "T", "U", "V", "W", "X", "Y", "Z"}

\* The character classes of the listing pattern: \s, \S, \d, \w, [\d:],
\* and the line terminators `.` does not match.
SpaceChars == {" ", "\t", "\n", "\r", "\f"}

InClass(c, cls) ==
    CASE cls = "s" -> c \in SpaceChars
      [] cls = "S" -> c \notin SpaceChars
      [] cls = "d" -> c \in Digits
      [] cls = "w" -> c \in Digits \cup Letters \cup {"_"}
      [] cls = "d:" -> c \in Digits \cup {":"}

\* s.endsWith(c) and s.startsWith(prefix)
EndsWith(s, c) == Len(s) > 0 /\ s[Len(s)] = c
StartsWith(s, prefix) ==
    Len(s) >= Len(prefix) /\ SubSeq(s, 1, Len(prefix)) = prefix

\* s.slice(0, -1)
DropLast(s) == IF s = <<>> THEN <<>> ELSE SubSeq(s, 1, Len(s) - 1)

\* s.indexOf(sub), counted from 1; 0 when sub does not occur (-1 in the code)
IndexOf(s, sub) ==
    LET hits == {i \in 1..(Len(s) - Len(sub) + 1) :
                    SubSeq(s, i, i + Len(sub) - 1) = sub}
    IN IF hits = {} THEN 0 ELSE CHOOSE i \in hits : \A j \in hits : i <= j

\* s.includes(sub)
Includes(s, sub) == IndexOf(s, sub) > 0

\* s.split(c) for a one-character separator
RECURSIVE Split(_, _)
Split(s, c) ==
    LET i == IndexOf(s, <<c>>) IN
    IF i = 0 THEN <<s>>
    ELSE <<SubSeq(s, 1, i - 1)>> \o Split(SubSeq(s, i + 1, Len(s)), c)

\* rawLine.replace(/\r$/, ""): one trailing carriage return is removed
StripCR(s) == IF EndsWith(s, "\r") THEN DropLast(s) ELSE s

\* The digits of a decimal numeral to its value: parseInt(digits, 10)
RECURSIVE DigitsValue(_)
DigitsValue(ds) ==
    IF ds = <<>> THEN 0
    ELSE 10 * DigitsValue(DropLast(ds))
         + (CHOOSE n \in 0..9 :
               <<"0", "1", "2", "3", "4", "5", "6", "7", "8", "9">>[n + 1]
                   = ds[Len(ds)])

\* The index after the longest run of characters of class cls that starts at i
RECURSIVE RunEnd(_, _, _)
RunEnd(s, i, cls) ==
    IF i <= Len(s) /\ InClass(s[i], cls) THEN RunEnd(s, i + 1, cls) ELSE i

(***************************************************************************)
(* Listing parser: parseLsLaOutput.                                        *)
(***************************************************************************)

\* Matching \s+ and then field k and the following ones from index p: the
\* <<start, end>> spans of the fields, or <<>> when the line does not match.
\* Every field class lies within \S and a field is followed by \s, so a field
\* is a whole run of non-space characters, all of its class.
RECURSIVE MatchFields(_, _, _)
MatchFields(s, p, k) ==
    LET w == RunEnd(s, p, "s")
        e == RunEnd(s, w, "S")
    IN IF w = p \/ e = w \/ RunEnd(s, w, <<"d", "S", "S", "d", "w", "d", "d:">>[k]) # e THEN <<>>
       ELSE IF k = Len(<<"d", "S", "S", "d", "w", "d", "d:">>) THEN << <<w, e>> >>
       ELSE LET rest == MatchFields(s, e, k + 1)
            IN IF rest = <<>> THEN <<>> ELSE << <<w, e>> >> \o rest

\* The name field: \s+(.+)$ from index p. \s+ is greedy; when nothing is left
\* after the white space it gives back its last character to (.+).
NameField(s, p) ==
    LET w == RunEnd(s, p, "s")
        rest == SubSeq(s, w, Len(s))
    IN IF w = p THEN <<>>
       ELSE IF rest # <<>>
            THEN IF \E i \in 1..Len(rest) : rest[i] \in {"\n", "\r"}
                 THEN <<>> ELSE rest
       ELSE IF w - p >= 2 /\ s[w - 1] \notin {"\n", "\r"}
            THEN <<s[w - 1]>> ELSE <<>>

\* line.match(/^(\S{10,11})\s+\d+\s+\S+\s+\S+\s+(\d+)\s+\w+\s+\d+\s+[\d:]+\s+(.+)$/):
\* [matched, permissions, sizeStr, rawName]
MatchLine(line) ==
    LET e1 == RunEnd(line, 1, "S")
        fields == IF e1 - 1 \in {10, 11} THEN MatchFields(line, e1, 1) ELSE <<>>
        raw == IF fields = <<>> THEN <<>>
               ELSE NameField(line, fields[Len(fields)][2])
    IN IF fields = <<>> \/ raw = <<>> THEN [matched |-> FALSE]
       ELSE [matched |-> TRUE,
             permissions |-> SubSeq(line, 1, e1 - 1),
             sizeStr |-> SubSeq(line, fields[4][1], fields[4][2] - 1),
             rawName |-> raw]

Some(x) == <<x>>
Undefined == <<>>

\* The body of the loop of parseLsLaOutput for one raw line: the entry it
\* pushes, as a sequence of zero or one entries. `directoryTypes` are the
\* type characters of a directory and `splitsAny` is whether the name of an
\* entry that is not a symlink is split too.
LoopBody(rawLine, dirPath, directoryTypes, splitsAny) ==
    LET line == StripCR(rawLine)
        match == MatchLine(line)
    IN IF line = <<>> \/ StartsWith(line, <<"t", "o", "t", "a", "l", " ">>) THEN <<>>
       ELSE IF ~match.matched THEN <<>>
       ELSE IF match.rawName = <<".">> \/ match.rawName = <<".", ".">> THEN <<>>
       ELSE LET typeChar == match.permissions[1]
                isDirectory == typeChar \in directoryTypes
                isSymlink == typeChar = "l"
                split == (isSymlink \/ splitsAny) /\ Includes(match.rawName, <<" ", "-", ">", " ">>)
                arrowIdx == IndexOf(match.rawName, <<" ", "-", ">", " ">>)
                name == IF split THEN SubSeq(match.rawName, 1, arrowIdx - 1)
                        ELSE match.rawName
            IN << [name |-> name,
                   path |-> dirPath \o name,
                   isDirectory |-> isDirectory,
                   permissions |-> match.permissions,
                   size |-> DigitsValue(match.sizeStr),
                   isSymlink |-> isSymlink,
                   symlinkTarget |->
                       IF split
                       THEN Some(SubSeq(match.rawName, arrowIdx + 4,
                                        Len(match.rawName)))
                       ELSE Undefined] >>

\* (mutant) the name of any entry is split at " -> "
ParseLine_SplitAny(rawLine, dirPath) == LoopBody(rawLine, dirPath, {"d"}, TRUE)

\* (mutant) a symlink is reported as a directory as well
ParseLine_LinkIsDirectory(rawLine, dirPath) == LoopBody(rawLine, dirPath, {"d", "l"}, FALSE)

\* const isDirectory = typeChar === "d";
\* if (isSymlink && rawName.includes(" -> ")) { ... }
ParseLine(rawLine, dirPath) == LoopBody(rawLine, dirPath, {"d"}, FALSE)

RECURSIVE ParseLines(_, _)

\* (mutant) the entries come out in the reverse order of their lines
ParseLines_Reversed(lines, dirPath) ==
    IF lines = <<>> THEN <<>>
    ELSE ParseLines(Tail(lines), dirPath) \o ParseLine(Head(lines), dirPath)

ParseLines(lines, dirPath) ==
    IF lines = <<>> THEN <<>>
    ELSE ParseLine(Head(lines), dirPath) \o ParseLines(Tail(lines), dirPath)

\* parseLsLaOutput(output, dirPath)
parseLsLaOutput(output, dirPath) == ParseLines(Split(output, "\n"), dirPath)

\* (mutant) the fallback keeps the trailing "/" in the name of a directory
SimpleLine_KeepSlash(rawLine, normalizedPath) ==
    LET line == StripCR(rawLine)
    IN IF line = <<>> \/ line = <<".", "/">> \/ line = <<".", ".", "/">> THEN <<>>
       ELSE << [name |-> line, path |-> normalizedPath \o line,
                isDirectory |-> EndsWith(line, "/")] >>

\* The fallback of listDir for one line of `ls -1ap`: split, strip \r, filter
\* out "", "./" and "../", and map to {name, path, isDirectory}.
SimpleLine(rawLine, normalizedPath) ==
    LET line == StripCR(rawLine)
        isDir == EndsWith(line, "/")
        name == IF isDir THEN DropLast(line) ELSE line
    IN IF line = <<>> \/ line = <<".", "/">> \/ line = <<".", ".", "/">> THEN <<>>
       ELSE << [name |-> name, path |-> normalizedPath \o name,
                isDirectory |-> isDir] >>

RECURSIVE SimpleLines(_, _)
SimpleLines(lines, normalizedPath) ==
    IF lines = <<>> THEN <<>>
    ELSE SimpleLine(Head(lines), normalizedPath)
         \o SimpleLines(Tail(lines), normalizedPath)

\* dirPath.endsWith("/") ? dirPath : `${dirPath}/`
NormalizeDir(dirPath) == IF EndsWith(dirPath, "/") THEN dirPath ELSE dirPath \o <<"/">>

(***************************************************************************)
(* Inputs of the listing operations.                                       *)
(***************************************************************************)
\* lines of one listing output
MaxLines == 2

\* The dirPath arguments: "", "/", "/etc", "/etc/"
Dirs ==
    {<<>>,
     <<"/">>,
     <<"/", "e", "t", "c">>,
     <<"/", "e", "t", "c", "/">>}

\* Lines of `ls -la --color=never` output.
DetailedLines ==
    {\* drwxr-xr-x 2 root root 40 Jan  1 00:00 .
     <<"d", "r", "w", "x", "r", "-", "x", "r", "-", "x", " ", "2", " ", "r",
       "o", "o", "t", " ", "r", "o", "o", "t", " ", "4", "0", " ", "J", "a",
       "n", " ", " ", "1", " ", "0", "0", ":", "0", "0", " ", ".">>,
     \* drwxr-xr-x 9 root root 40 Jan  1 00:00 ..
     <<"d", "r", "w", "x", "r", "-", "x", "r", "-", "x", " ", "9", " ", "r",
       "o", "o", "t", " ", "r", "o", "o", "t", " ", "4", "0", " ", "J", "a",
       "n", " ", " ", "1", " ", "0", "0", ":", "0", "0", " ", ".", ".">>,
     \* drwxr-xr-x 2 root root 40 Jan  1 00:00 etc
     <<"d", "r", "w", "x", "r", "-", "x", "r", "-", "x", " ", "2", " ", "r",
       "o", "o", "t", " ", "r", "o", "o", "t", " ", "4", "0", " ", "J", "a",
       "n", " ", " ", "1", " ", "0", "0", ":", "0", "0", " ", "e", "t", "c">>,
     \* a regular file "a b", with an SELinux mark and a year
     \* -rw-r--r--. 1 root root 7 Dec 31 2024 a b
     <<"-", "r", "w", "-", "r", "-", "-", "r", "-", "-", ".", " ", "1", " ",
       "r", "o", "o", "t", " ", "r", "o", "o", "t", " ", "7", " ", "D", "e",
       "c", " ", "3", "1", " ", "2", "0", "2", "4", " ", "a", " ", "b">>,
     \* lrwxrwxrwx 1 root root 6 Jan  1 00:00 link -> target
     <<"l", "r", "w", "x", "r", "w", "x", "r", "w", "x", " ", "1", " ", "r",
       "o", "o", "t", " ", "r", "o", "o", "t", " ", "6", " ", "J", "a", "n",
       " ", " ", "1", " ", "0", "0", ":", "0", "0", " ", "l", "i", "n", "k",
       " ", "-", ">", " ", "t", "a", "r", "g", "e", "t">>,
     \* a symlink line with no target marker
     \* lrwxrwxrwx 1 root root 6 Jan  1 00:00 lnk
     <<"l", "r", "w", "x", "r", "w", "x", "r", "w", "x", " ", "1", " ", "r",
       "o", "o", "t", " ", "r", "o", "o", "t", " ", "6", " ", "J", "a", "n",
       " ", " ", "1", " ", "0", "0", ":", "0", "0", " ", "l", "n", "k">>,
     \* a symlink whose own name is ". -> x", pointing to "t"
     \* lrwxrwxrwx 1 root root 1 Jan  1 00:00 . -> x -> t
     <<"l", "r", "w", "x", "r", "w", "x", "r", "w", "x", " ", "1", " ", "r",
       "o", "o", "t", " ", "r", "o", "o", "t", " ", "1", " ", "J", "a", "n",
       " ", " ", "1", " ", "0", "0", ":", "0", "0", " ", ".", " ", "-", ">",
       " ", "x", " ", "-", ">", " ", "t">>,
     \* a regular file whose name is "a -> b"
     \* -rw-r--r-- 1 root root 0 Jan  1 00:00 a -> b
     <<"-", "r", "w", "-", "r", "-", "-", "r", "-", "-", " ", "1", " ", "r",
       "o", "o", "t", " ", "r", "o", "o", "t", " ", "0", " ", "J", "a", "n",
       " ", " ", "1", " ", "0", "0", ":", "0", "0", " ", "a", " ", "-", ">",
       " ", "b">>,
     \* total 8
     <<"t", "o", "t", "a", "l", " ", "8">>,
     \* an entry ls could not stat
     \* d????????? ? ? ? ? ? lost
     <<"d", "?", "?", "?", "?", "?", "?", "?", "?", "?", " ", "?", " ", "?",
       " ", "?", " ", "?", " ", "?", " ", "l", "o", "s", "t">>}

\* Lines of `ls -1ap` output; the last is the second line of a name that
\* holds a line break.
SimpleOutputLines ==
    {<<".", "/">>, <<".", ".", "/">>, <<"e", "t", "c", "/">>, <<"a", " ", "b">>,
     <<".">>}

\* Line ends: "\n", and "\r\n" as kubectl prints on Windows.
RECURSIVE JoinLines(_, _)
JoinLines(lines, eol) ==
    IF lines = <<>> THEN <<>>
    ELSE Head(lines) \o eol \o JoinLines(Tail(lines), eol)

\* The outputs of up to MaxLines lines over a set of lines.
OutputsOver(lineSet) ==
    {JoinLines(ls, eol) :
        ls \in UNION {[1..n -> lineSet] : n \in 0..MaxLines},
        eol \in {<<"\n">>, <<"\r", "\n">>}}

(***************************************************************************)
(* Binary classifier: isBinaryByExtension.                                 *)
(***************************************************************************)
KNOWN_BINARY_EXTENSIONS ==
    {<<"p", "n", "g">>,
     <<"j", "p", "g">>,
     <<"j", "p", "e", "g">>,
     <<"g", "i", "f">>,
     <<"b", "m", "p">>,
     <<"i", "c", "o">>,
     <<"w", "e", "b", "p">>,
     <<"s", "v", "g">>,
     <<"g", "z">>,
     <<"t", "a", "r">>,
     <<"z", "i", "p">>,
     <<"b", "z", "2">>,
     <<"x", "z">>,
     <<"7", "z">>,
     <<"r", "a", "r">>,
     <<"z", "s", "t">>,
     <<"b", "i", "n">>,
     <<"s", "o">>,
     <<"o">>,
     <<"a">>,
     <<"d", "y", "l", "i", "b">>,
     <<"d", "l", "l">>,
     <<"e", "x", "e">>,
     <<"e", "l", "f">>,
     <<"w", "a", "s", "m">>,
     <<"c", "l", "a", "s", "s">>,
     <<"p", "y", "c">>,
     <<"p", "y", "o">>,
     <<"p", "d", "f">>,
     <<"d", "o", "c">>,
     <<"d", "o", "c", "x">>,
     <<"x", "l", "s">>,
     <<"x", "l", "s", "x">>,
     <<"p", "p", "t">>,
     <<"p", "p", "t", "x">>,
     <<"m", "p", "3">>,
     <<"m", "p", "4">>,
     <<"w", "a", "v">>,
     <<"o", "g", "g">>,
     <<"f", "l", "a", "c">>,
     <<"a", "v", "i">>,
     <<"m", "k", "v">>,
     <<"m", "o", "v">>,
     <<"t", "t", "f">>,
     <<"o", "t", "f">>,
     <<"w", "o", "f", "f">>,
     <<"w", "o", "f", "f", "2">>,
     <<"e", "o", "t">>,
     <<"s", "q", "l", "i", "t", "e">>,
     <<"d", "b">>}

\* s.toLowerCase(), on ASCII letters
ToLowerCase(s) ==
    LET lower == <<"a", "b", "c", "d", "e", "f", "g", "h", "i", "j", "k", "l",
                   "m", "n", "o", "p", "q", "r", "s", "t", "u", "v", "w", "x",
                   "y", "z">>
        upper == <<"A", "B", "C", "D", "E", "F", "G", "H", "I", "J", "K", "L",
                   "M", "N", "O", "P", "Q", "R", "S", "T", "U", "V", "W", "X",
                   "Y", "Z">>
        LowerOf(c) ==
            IF \E k \in 1..26 : upper[k] = c
            THEN lower[CHOOSE k \in 1..26 : upper[k] = c]
            ELSE c
    IN [i \in 1..Len(s) |-> LowerOf(s[i])]

\* (mutant) the extension is looked up as written, without lower-casing
isBinaryByExtension_CaseSensitive(filePath) ==
    LET parts == Split(filePath, ".")
        ext == parts[Len(parts)]
    IN IF ext # <<>> THEN ext \in KNOWN_BINARY_EXTENSIONS ELSE FALSE

\* isBinaryByExtension(filePath): the text after the last "." (the whole path
\* when it has none), lower-cased, is in the set; an empty one is not.
isBinaryByExtension(filePath) ==
    LET parts == Split(filePath, ".")
        ext == ToLowerCase(parts[Len(parts)])
    IN IF ext # <<>> THEN ext \in KNOWN_BINARY_EXTENSIONS ELSE FALSE

(***************************************************************************)
(* Numbers read from text: parseInt(text, 10), with NaN.                   *)
(***************************************************************************)
NaN == <<>>
Num(n) == <<n>>

\* s.trim()
RECURSIVE TrimEnd(_)
TrimEnd(s) ==
    IF s # <<>> /\ s[Len(s)] \in SpaceChars THEN TrimEnd(DropLast(s)) ELSE s

Trim(s) == TrimEnd(SubSeq(s, RunEnd(s, 1, "s"), Len(s)))

\* parseInt(s, 10): leading white space, an optional sign, then the longest
\* run of digits; NaN when there is no digit there.
ParseInt(s) ==
    LET p == RunEnd(s, 1, "s")
        signed == p <= Len(s) /\ s[p] \in {"-", "+"}
        q == IF signed THEN p + 1 ELSE p
        e == RunEnd(s, q, "d")
        v == DigitsValue(SubSeq(s, q, e - 1))
    IN IF e = q THEN NaN
       ELSE IF signed /\ s[p] = "-" THEN Num(0 - v) ELSE Num(v)

\* a > b on numbers, false when either is NaN
GreaterThan(a, b) == a # NaN /\ b # NaN /\ a[1] > b[1]

(***************************************************************************)
(* Credential locator: findProxyKubeconfig.                                *)
(***************************************************************************)
\* tmpdir()
TempDir == <<"/", "t", "m", "p">>

\* "kubeconfig-"
KubeconfigPrefix == <<"k", "u", "b", "e", "c", "o", "n", "f", "i", "g", "-">>

\* join(tempDir, file), for a file name without separators
Join(dir, file) == dir \o <<"/">> \o file

\* existsSync(path), for a path in the temporary directory. The directory
\* is given by the names readdirSync lists (`files`), in its order, each
\* existing for existsSync or not (a dangling link), and by whether it can
\* be read at all (`readable`).
ExistsSync(tempDirectory, path) ==
    \E i \in 1..Len(tempDirectory.files) :
        /\ Join(TempDir, tempDirectory.files[i].name) = path
        /\ tempDirectory.files[i].exists

\* A call of the fs module.
FsCall(call, path) == [call |-> call, path |-> path]

\* The value a call of findProxyKubeconfig returns, with the fs calls made.
Located(value, accesses) == [value |-> value, accesses |-> accesses]

\* for (const file of files) { ... }, from the file at index i on
RECURSIVE ScanFiles(_, _, _, _)
ScanFiles(clusterId, tempDirectory, i, accesses) ==
    IF i > Len(tempDirectory.files) THEN Located(Undefined, accesses)
    ELSE LET file == tempDirectory.files[i].name
             fullPath == Join(TempDir, file)
         IN IF StartsWith(file, KubeconfigPrefix) /\ Includes(file, clusterId)
            THEN IF ExistsSync(tempDirectory, fullPath)
                 THEN Located(Some(fullPath),
                              Append(accesses, FsCall("existsSync", fullPath)))
                 ELSE ScanFiles(clusterId, tempDirectory, i + 1,
                                Append(accesses, FsCall("existsSync", fullPath)))
            ELSE ScanFiles(clusterId, tempDirectory, i + 1, accesses)

\* (mutant) findProxyKubeconfig without the test for an empty clusterId
findProxyKubeconfig_NoGuard(clusterId, tempDirectory) ==
    LET directPath == Join(TempDir, KubeconfigPrefix \o clusterId)
        direct == <<FsCall("existsSync", directPath)>>
        scan == Append(direct, FsCall("readdirSync", TempDir))
    IN IF ExistsSync(tempDirectory, directPath) THEN Located(Some(directPath), direct)
       ELSE IF ~tempDirectory.readable THEN Located(Undefined, scan)
       ELSE ScanFiles(clusterId, tempDirectory, 1, scan)

\* (mutant) findProxyKubeconfig falling back on the direct path when the
\* directory cannot be read
findProxyKubeconfig_GuessOnFailure(clusterId, tempDirectory) ==
    IF clusterId = <<>> THEN Located(Undefined, <<>>)
    ELSE LET directPath == Join(TempDir, KubeconfigPrefix \o clusterId)
             direct == <<FsCall("existsSync", directPath)>>
             scan == Append(direct, FsCall("readdirSync", TempDir))
         IN IF ExistsSync(tempDirectory, directPath) \/ ~tempDirectory.readable
            THEN Located(Some(directPath), direct)
            ELSE ScanFiles(clusterId, tempDirectory, 1, scan)

\* findProxyKubeconfig(clusterId): undefined for an empty clusterId; the
\* direct path when it exists; else the first listed file that starts with
\* "kubeconfig-", includes clusterId and exists; undefined when there is
\* none or the directory cannot be read.
findProxyKubeconfig(clusterId, tempDirectory) ==
    IF clusterId = <<>> THEN Located(Undefined, <<>>)
    ELSE LET directPath == Join(TempDir, KubeconfigPrefix \o clusterId)
             direct == <<FsCall("existsSync", directPath)>>
             scan == Append(direct, FsCall("readdirSync", TempDir))
         IN IF ExistsSync(tempDirectory, directPath)
            THEN Located(Some(directPath), direct)
            ELSE IF ~tempDirectory.readable THEN Located(Undefined, scan)
            ELSE ScanFiles(clusterId, tempDirectory, 1, scan)

\* Inputs: cluster identifiers, one of them part of another, and the names
\* found in the temporary directory.
MaxFiles == 2
ClusterIds == {<<>>, <<"a">>, <<"a", "b">>, <<"b">>}

\* The temporary directories: a listing of at most MaxFiles different
\* names, readable or not.
TempDirectories ==
    LET FileNames ==
            {KubeconfigPrefix \o id : id \in ClusterIds \ {<<>>}}
                \cup {\* a-kubeconfig-b
                      <<"a", "-", "k", "u", "b", "e", "c", "o", "n", "f", "i", "g",
                        "-", "b">>}
        Listings(n) ==
            {files \in [1..n -> [name : FileNames, exists : BOOLEAN]] :
                \A i, j \in 1..n : files[i].name = files[j].name => i = j}
    IN {[files |-> files, readable |-> readable] :
            files \in UNION {Listings(n) : n \in 0..MaxFiles}, readable \in BOOLEAN}

(***************************************************************************)
(* Child-process environment: buildKubectlEnv and the --kubeconfig flag.   *)
(***************************************************************************)
\* process.env of the main process: the user's own PATH and KUBECONFIG.
ProcessEnv ==
    [PATH |-> <<"/", "b", "i", "n">>,
     KUBECONFIG |-> <<"/", "h", "/", "c", "o", "n", "f", "i", "g">>]

\* The clusters the handlers are invoked for.
HandlerClusterIds == {<<>>, <<"a">>}

\* (mutant) buildKubectlEnv writing KUBECONFIG into process.env itself
buildKubectlEnv_InPlace(clusterId, h) ==
    LET proxyKubeconfig == findProxyKubeconfig(clusterId, h.tempDirectory).value
        env == IF proxyKubeconfig # Undefined
               THEN [h.env EXCEPT !.KUBECONFIG = proxyKubeconfig[1]]
               ELSE h.env
    IN [env |-> env, proxyKubeconfig |-> proxyKubeconfig, processEnv |-> env]

\* buildKubectlEnv(clusterId): a copy of process.env, with KUBECONFIG set to
\* the proxy kubeconfig when one is found. `processEnv` is process.env as
\* the call leaves it.
buildKubectlEnv(clusterId, h) ==
    LET proxyKubeconfig == findProxyKubeconfig(clusterId, h.tempDirectory).value
        env == h.env
    IN [env |-> IF proxyKubeconfig # Undefined
                THEN [env EXCEPT !.KUBECONFIG = proxyKubeconfig[1]]
                ELSE env,
        proxyKubeconfig |-> proxyKubeconfig,
        processEnv |-> h.env]

\* The child process an invocation starts: its arguments and environment.
\* const args = []; if (proxyKubeconfig) args.push("--kubeconfig", ...);
\* args.push("exec", ...): `kubeconfig` is the value of the flag at the head
\* of the arguments, if the flag is there, `stdin` the -i flag.
Invocation(clusterId, h, stdin, command) ==
    LET built == buildKubectlEnv(clusterId, h)
    IN [args |-> [kubeconfig |-> built.proxyKubeconfig,
                  stdin |-> stdin, command |-> command],
        env |-> built.env,
        processEnv |-> built.processEnv]

NoInvocation == [args |-> <<>>]

\* No FileTree is mounted.
NoTree == [id |-> 0]

\* No FileViewer is mounted.
NoViewer == [id |-> 0]

\* PodFsDetails as it is first rendered for the pod p
\* (useState(false), useState(null), useState(""), useState("/")); pathFor
\* and fileFor are history: the pod and container that were shown when
\* currentPath and selectedFile got their values.
InitialPanel(p) ==
    [pod |-> p, browsing |-> FALSE, selectedFile |-> Null,
     selectedContainer |-> "", currentPath |-> <<"/">>,
     pathFor |-> <<p, "c1">>, fileFor |-> <<p, "c1">>]

\* The state before any handler is invoked: no upload started, no operation
\* invoked, no lookup made, the main process on one of its hosts, and the
\* page as useState("") / useState(false) / useState("/") leave it.
Init ==
    /\ upc = [u \in Uploads |-> "idle"]
    /\ settled = [u \in Uploads |-> FALSE]
    /\ timer = [u \in Uploads |-> "none"]
    /\ stderr = [u \in Uploads |-> <<>>]
    /\ kills = [u \in Uploads |-> 0]
    /\ promise = [u \in Uploads |-> [state |-> "pending"]]
    /\ envelope = [u \in Uploads |-> NoEnvelope]
    /\ resolveCalls = [u \in Uploads |-> 0]
    /\ rejectCalls = [u \in Uploads |-> 0]
    /\ timerRuns = [u \in Uploads |-> 0]
    /\ firstEvent = [u \in Uploads |-> NoEvent]
    /\ received = [u \in Uploads |-> <<>>]
    /\ closes = [u \in Uploads |-> 0]
    /\ eventsLeft = MaxEvents
    /\ chunksLeft = MaxChunks
    /\ op = [name |-> "none"]
    /\ opc = "idle"
    /\ pending = [label |-> "none", cmd |-> <<>>, options |-> <<>>]
    /\ log = <<>>
    /\ result = [how |-> "none"]
    /\ lpc = "idle"
    /\ lookup = [none |-> TRUE]
    /\ located = [none |-> TRUE]
    \* the host: its temporary directory holds the proxy kubeconfig of
    \* cluster "a", or it cannot be enumerated
    /\ host \in {[env |-> ProcessEnv, tempDirectory |-> d] :
                   d \in {[files |-> <<[name |-> KubeconfigPrefix \o <<"a">>,
                                        exists |-> TRUE]>>,
                           readable |-> TRUE],
                          [files |-> <<>>, readable |-> FALSE]}}
    /\ spawned = [u \in Uploads |-> NoInvocation]
    /\ page = [selectedPod |-> "", browsing |-> FALSE, currentPath |-> <<"/">>,
               mounts |-> 0]
    /\ tree = NoTree
    /\ inflight = <<>>
    /\ notice = [kind |-> "none"]
    /\ offered = {}
    /\ viewer = NoViewer
    /\ viewerRequests = <<>>
    /\ viewerMounts = 0
    /\ panel = InitialPanel("p1")
    /\ issued = {}

(***************************************************************************)
(* The streaming upload channel: the handler and the events it meets.     *)
(***************************************************************************)
\* uploadFile handler up to its await: kubectlWriteFile spawns the process,
\* registers the handlers, arms the 30 s watchdog and ends stdin.
UploadFileCall(u, clusterId) ==
    /\ UNCHANGED notUpload
    /\ upc[u] = "idle"
    /\ LET child == Invocation(clusterId, host, TRUE,
                               [tool |-> "sh", flags |-> "-c", script |-> "cat > \"$0\""])
       IN /\ spawned' = [spawned EXCEPT ![u] = [clusterId |-> clusterId,
                                                   args |-> child.args,
                                                   env |-> child.env]]
          /\ host' = [host EXCEPT !.env = child.processEnv]
    /\ upc' = [upc EXCEPT ![u] = "pending"]
    /\ timer' = [timer EXCEPT ![u] = "pending"]
    /\ UNCHANGED <<settled, stderr, kills, promise, envelope, resolveCalls,
                   rejectCalls, timerRuns, firstEvent, received, closes,
                   eventsLeft, chunksLeft>>

\* spawn() throws synchronously (an argument it rejects): the promise executor
\* throws before any handler or timer exists, which rejects the promise.
UploadFileSpawnThrows(u) ==
    /\ UNCHANGED <<notUpload, host, spawned>>
    /\ upc[u] = "idle"
    /\ promise' = [promise EXCEPT ![u] = Rejected(ErrorOf("ERR_INVALID_ARG_VALUE"))]
    /\ envelope' = [envelope EXCEPT ![u] =
                       UploadEnvelope(Rejected(ErrorOf("ERR_INVALID_ARG_VALUE")))]
    /\ upc' = [upc EXCEPT ![u] = "done"]
    /\ UNCHANGED <<settled, timer, stderr, kills, resolveCalls, rejectCalls,
                   timerRuns, firstEvent, received, closes, eventsLeft,
                   chunksLeft>>

\* The stderr 'data' handler; `text` is what it adds to `stderr`.
StderrHandler(u, chunk, text) ==
    /\ UNCHANGED <<notUpload, host, spawned>>
    /\ timer[u] # "none"
    /\ chunksLeft > 0
    /\ chunksLeft' = chunksLeft - 1
    /\ stderr' = [stderr EXCEPT ![u] = text]
    /\ received' = [received EXCEPT ![u] = Append(@, chunk)]
    /\ UNCHANGED <<upc, settled, timer, kills, promise, envelope, resolveCalls,
                   rejectCalls, timerRuns, firstEvent, closes, eventsLeft>>

\* (mutant) `stderr` declared at module level: one buffer for all uploads
StderrData_Shared(u, chunk) ==
    /\ UNCHANGED <<notUpload, host, spawned>>
    /\ timer[u] # "none"
    /\ chunksLeft > 0
    /\ chunksLeft' = chunksLeft - 1
    /\ stderr' = [v \in Uploads |-> stderr[v] \o BufferToString(chunk)]
    /\ received' = [received EXCEPT ![u] = Append(@, chunk)]
    /\ UNCHANGED <<upc, settled, timer, kills, promise, envelope, resolveCalls,
                   rejectCalls, timerRuns, firstEvent, closes, eventsLeft>>

\* (mutant) stderr = chunk.toString(): the buffer is overwritten
StderrData_Overwrite(u, chunk) == StderrHandler(u, chunk, BufferToString(chunk))

\* proc.stderr.on("data", chunk => { stderr += chunk.toString(); })
StderrData(u, chunk) ==
    StderrHandler(u, chunk, stderr[u] \o BufferToString(chunk))

\* The watchdog callback: `marks` is whether it sets `settled`, `rejects`
\* whether it rejects.
WatchdogCallback(u, marks, rejects) ==
    /\ UNCHANGED <<notUpload, host, spawned>>
    /\ timer[u] = "pending"
    /\ timer' = [timer EXCEPT ![u] = "fired"]
    /\ timerRuns' = [timerRuns EXCEPT ![u] = @ + 1]
    /\ NoteEvent(u, [kind |-> "timeout"])
    /\ IF ~settled[u]
       THEN /\ settled' = [settled EXCEPT ![u] = marks]
            /\ kills' = [kills EXCEPT ![u] = @ + 1]
            /\ IF rejects
               THEN SettleUpload(u, Rejected(UploadTimeoutError))
               ELSE UNCHANGED <<promise, envelope, upc, resolveCalls, rejectCalls>>
       ELSE UNCHANGED <<settled, kills, promise, envelope, upc, resolveCalls,
                        rejectCalls>>
    /\ UNCHANGED <<stderr, received, closes, eventsLeft, chunksLeft>>

\* (mutant) the watchdog rejects without setting `settled`
WatchdogFires_NoFlag(u) == WatchdogCallback(u, FALSE, TRUE)

\* (mutant) the watchdog only kills the process and leaves settling to 'close'
WatchdogFires_KillOnly(u) == WatchdogCallback(u, FALSE, FALSE)

\* setTimeout(() => { if (!settled) { settled = true; proc.kill("SIGTERM");
\*                    reject(new Error("Upload timed out ...")); } }, 30_000)
WatchdogFires(u) == WatchdogCallback(u, TRUE, TRUE)

\* The 'error' handler; `clears` is whether it calls clearTimeout(timer).
ErrorHandler(u, err, clears) ==
    /\ UNCHANGED <<notUpload, host, spawned>>
    /\ timer[u] # "none"
    /\ eventsLeft > 0
    /\ eventsLeft' = eventsLeft - 1
    /\ NoteEvent(u, [kind |-> "error", error |-> err])
    /\ IF ~settled[u]
       THEN /\ settled' = [settled EXCEPT ![u] = TRUE]
            /\ timer' = [timer EXCEPT ![u] = IF clears /\ @ = "pending" THEN "cleared" ELSE @]
            /\ SettleUpload(u, Rejected(ErrorOf(err)))
       ELSE UNCHANGED <<settled, timer, promise, envelope, upc, resolveCalls,
                        rejectCalls>>
    /\ UNCHANGED <<stderr, kills, timerRuns, received, closes, chunksLeft>>

\* (mutant) the 'error' handler leaves the watchdog armed
ProcError_NoClear(u, err) == ErrorHandler(u, err, FALSE)

\* proc.on("error", err => { if (!settled) { settled = true;
\*                           clearTimeout(timer); reject(err); } })
ProcError(u, err) == ErrorHandler(u, err, TRUE)

\* (mutant) if (!code) resolve(): a null exit code counts as success
CloseOutcome_Falsy(code, text) ==
    IF code = <<0>> \/ code = Null THEN Fulfilled
    ELSE Rejected(UploadFailedError(code, text))

\* if (code === 0) resolve();
\* else reject(new Error(`Upload failed (exit ${code}): ${stderr}`));
CloseOutcome(code, text) ==
    IF code = <<0>> THEN Fulfilled ELSE Rejected(UploadFailedError(code, text))

\* The 'close' handler; `open` is the guard under which it settles.
CloseHandler(u, code, open) ==
    /\ UNCHANGED <<notUpload, host, spawned>>
    /\ timer[u] # "none"
    /\ eventsLeft > 0
    /\ eventsLeft' = eventsLeft - 1
    /\ closes' = [closes EXCEPT ![u] = @ + 1]
    /\ NoteEvent(u, [kind |-> "close", code |-> code])
    /\ IF open
       THEN /\ settled' = [settled EXCEPT ![u] = TRUE]
            /\ timer' = [timer EXCEPT ![u] = IF @ = "pending" THEN "cleared" ELSE @]
            /\ SettleUpload(u, CloseOutcome(code, stderr[u]))
       ELSE UNCHANGED <<settled, timer, promise, envelope, upc, resolveCalls,
                        rejectCalls>>
    /\ UNCHANGED <<stderr, kills, timerRuns, received, chunksLeft>>

\* (mutant) the 'close' handler without the `settled` guard
ProcClose_Unguarded(u, code) == CloseHandler(u, code, TRUE)

\* proc.on("close", code => { if (!settled) { settled = true;
\*                            clearTimeout(timer); ... } })
ProcClose(u, code) == CloseHandler(u, code, ~settled[u])

\* The uploadFile handler is invoked.
UploadCalls(u) ==
    \/ \E clusterId \in HandlerClusterIds : UploadFileCall(u, clusterId)
    \/ UploadFileSpawnThrows(u)

\* An event of the child process or of the watchdog is delivered.
UploadEvents(u) ==
    \* stderr chunks as bytes: "P", a whole two-byte character (U+00E9), and
    \* the two halves of that character delivered apart
    \/ \E chunk \in {<<80>>, <<195, 169>>, <<195>>, <<169>>} : StderrData(u, chunk)
    \/ WatchdogFires(u)
    \/ \E err \in {"spawn kubectl ENOENT", "spawn kubectl EACCES"} : ProcError(u, err)
    \/ \E code \in {Null, <<0>>, <<1>>} : ProcClose(u, code)

\* One upload in flight.
NextUpload == \E u \in {1} : UploadCalls(u) \/ UploadEvents(u)

SpecUpload == Init /\ [][NextUpload]_vars

\* Two uploads to the pods of one cluster in flight at once, their events
\* interleaved in any order.
NextConcurrent ==
    \E u \in Uploads :
        \/ UploadFileCall(u, <<"a">>)
        \/ UploadFileSpawnThrows(u)
        \/ \E chunk \in {<<80>>, <<195, 169>>} : StderrData(u, chunk)
        \/ WatchdogFires(u)
        \/ \E err \in {"spawn kubectl ENOENT", "spawn kubectl EACCES"} : ProcError(u, err)
        \/ \E code \in {Null, <<0>>, <<1>>} : ProcClose(u, code)

SpecConcurrent == Init /\ [][NextConcurrent]_vars

\* The timer of setTimeout fires once its delay has passed.
FairSpecUpload == SpecUpload /\ \A u \in Uploads : WF_vars(WatchdogFires(u))

\* One call of findProxyKubeconfig.
FindProxyKubeconfigCall(clusterId, tempDirectory) ==
    /\ lpc = "idle"
    /\ lookup' = [clusterId |-> clusterId, tempDirectory |-> tempDirectory]
    /\ located' = findProxyKubeconfig(clusterId, tempDirectory)
    /\ lpc' = "done"
    /\ UNCHANGED <<uvars, ovars, host, gvars, wvars>>

NextLocator ==
    \E clusterId \in ClusterIds, tempDirectory \in TempDirectories :
        FindProxyKubeconfigCall(clusterId, tempDirectory)

SpecLocator == Init /\ [][NextLocator]_vars

(***************************************************************************)
(* Command gateway: kubectlExec.                                           *)
(***************************************************************************)
EXEC_TIMEOUT == 10000
MAX_FILE_SIZE == 1048576

\* The remote command after "--": the tool, its flags, a byte count for
\* `head -c`, and the path argument.
Cmd(tool, flags, count, path) ==
    [tool |-> tool, flags |-> flags, count |-> count, path |-> path]

\* (mutant) the timeout option of a call is ignored
Timeout_IgnoreOverride(options) == EXEC_TIMEOUT

\* options?.timeout ?? EXEC_TIMEOUT
Timeout(options) ==
    IF options = Undefined THEN EXEC_TIMEOUT
    ELSE IF options[1].timeout = Undefined THEN EXEC_TIMEOUT
    ELSE options[1].timeout[1]

\* maxBuffer: MAX_FILE_SIZE * 2
MaxBuffer == MAX_FILE_SIZE * 2

\* One run of the kubectl child process, as it would go if left alone:
\* whether it can be spawned, the exit code, the time it takes, and what it
\* writes to standard output, given as the text `stdout` followed by `more`
\* further bytes (0 unless the output is too long to be written out here).
Run(spawns, code, millis, stdout, more) ==
    [spawns |-> spawns, code |-> code, millis |-> millis, stdout |-> stdout,
     more |-> more]

\* The Error execFileAsync rejects with, for each way execFile fails: a
\* non-zero exit, a timeout (the child is killed), a spawn failure, more
\* output than maxBuffer (the child is killed). It carries the output
\* captured so far.
ExecError(cmd, kind, captured) ==
    CASE kind = "exit" ->
           [message |-> [text |-> "Command failed: kubectl ${args}", cmd |-> cmd,
                         killed |-> FALSE],
            stdout |-> captured]
      [] kind = "timeout" ->
           [message |-> [text |-> "Command failed: kubectl ${args}", cmd |-> cmd,
                         killed |-> TRUE],
            stdout |-> captured]
      [] kind = "spawn" ->
           [message |-> [text |-> "spawn kubectl ENOENT"], stdout |-> <<>>]
      [] kind = "maxBuffer" ->
           [message |-> [text |-> "stdout maxBuffer length exceeded"],
            stdout |-> captured]

\* await execFileAsync("kubectl", args, {timeout, maxBuffer, env}) and the
\* `return stdout` after it, for one run of the child process.
ExecFileAsync(cmd, options, run) ==
    IF ~run.spawns THEN [ok |-> FALSE, error |-> ExecError(cmd, "spawn", <<>>), run |-> run]
    ELSE IF Len(run.stdout) + run.more > MaxBuffer
         THEN [ok |-> FALSE, error |-> ExecError(cmd, "maxBuffer", run.stdout), run |-> run]
    ELSE IF run.millis > Timeout(options)
         THEN [ok |-> FALSE, error |-> ExecError(cmd, "timeout", run.stdout), run |-> run]
    ELSE IF run.code # 0 THEN [ok |-> FALSE, error |-> ExecError(cmd, "exit", run.stdout), run |-> run]
    ELSE [ok |-> TRUE, stdout |-> run.stdout, run |-> run]

\* The runs a handler's command can have, given the outputs the remote
\* command may print: a clean run for each output, and one run for each way
\* of failing.
Runs(stdouts) ==
    {Run(TRUE, 0, 5, s, 0) : s \in stdouts}
        \cup {Run(TRUE, 1, 5, <<"a">>, 0),
              Run(TRUE, 0, EXEC_TIMEOUT + 1, <<"a">>, 0),
              Run(FALSE, 0, 5, <<>>, 0),
              Run(TRUE, 0, 5, <<"a">>, MaxBuffer)}

\* The outcomes with which the handler can resume from the await `label`:
\* what `await kubectlExec(...)` of the pending command can produce.
Awaited(label, stdouts) ==
    IF opc = "await" /\ pending.label = label
    THEN {ExecFileAsync(pending.cmd, pending.options, run) : run \in Runs(stdouts)}
    ELSE {}

\* kubectlExec called with options, up to its await.
kubectlExecWith(clusterId, label, cmd, options) ==
    LET child == Invocation(clusterId, host, FALSE, cmd)
    IN /\ pending' = [label |-> label, cmd |-> cmd, options |-> options,
                      args |-> child.args, env |-> child.env]
       /\ host' = [host EXCEPT !.env = child.processEnv]
       /\ opc' = "await"
       /\ result' = result

\* The handler calls kubectlExec, without options, and suspends.
kubectlExec(clusterId, label, cmd) == kubectlExecWith(clusterId, label, cmd, Undefined)

\* The handler resumes from the await with `outcome`.
Resumes(label, outcome) ==
    /\ opc = "await"
    /\ pending.label = label
    /\ log' = Append(log, [label |-> label, cmd |-> pending.cmd,
                           options |-> pending.options, args |-> pending.args,
                           env |-> pending.env, outcome |-> outcome])

\* The handler completes.
Completes(completion) ==
    /\ result' = completion
    /\ opc' = "done"
    /\ pending' = [label |-> "none", cmd |-> <<>>, options |-> <<>>]
    /\ host' = host

\* return { success: true, data }  /  return { success: true }
Returns(env) == Completes([how |-> "return", value |-> env])

\* (mutant) a handler whose catch block rethrows
CatchAll_Rethrow(err) == Completes([how |-> "throw", error |-> err])

\* The catch block every handler ends with:
\* catch (error) { message = error instanceof Error ? error.message : String(error);
\*                 return { success: false, error: message }; }
CatchAll(err) == Returns(FailureEnvelope(err))

(***************************************************************************)
(* Inputs of the other operations.                                         *)
(***************************************************************************)
\* The character "\0"
NUL == "\\0"

FilePaths ==
    {<<"/", "a", ".", "p", "n", "g">>,
     <<"/", "a", ".", "P", "N", "G">>,
     <<"/", "a", ".", "t", "x", "t">>,
     <<"/", "e", "t", "c", "/", "p", "a", "s", "s", "w", "d">>}

\* Outputs of `stat -c %s`, of `head -c 512`, and of `head -c <limit>` and
\* `cat`.
ReadOutputs ==
    [size |-> {<<"7", "\n">>,
               <<"2", "0", "0", "0", "0", "0", "0", "\n">>,
               <<"4", "\n">>,
               <<"\n">>},
     sample |-> {<<>>, <<"a", "b">>, <<"a", NUL, "b">>},
     content |-> {<<>>, <<"a", "b">>, <<"a", "b", "c", "d">>}]

StatOutputs ==
    {<<>>,
     \* Outputs of `stat -c "%F|%s|%a|%y"`.
     \* directory|4096|755|2024
     <<"d", "i", "r", "e", "c", "t", "o", "r", "y", "|", "4", "0", "9", "6",
       "|", "7", "5", "5", "|", "2", "0", "2", "4", "\n">>,
     \* regular file|7|644|2024
     <<"r", "e", "g", "u", "l", "a", "r", " ", "f", "i", "l", "e", "|", "7",
       "|", "6", "4", "4", "|", "2", "0", "2", "4", "\n">>,
     \* regular empty file|0|644|2024
     <<"r", "e", "g", "u", "l", "a", "r", " ", "e", "m", "p", "t", "y", " ",
       "f", "i", "l", "e", "|", "0", "|", "6", "4", "4", "|", "2", "0", "2",
       "4", "\n">>,
     \* symbolic link|6|777|2024
     <<"s", "y", "m", "b", "o", "l", "i", "c", " ", "l", "i", "n", "k", "|",
       "6", "|", "7", "7", "7", "|", "2", "0", "2", "4", "\n">>,
     \* fifo|0|644|2024
     <<"f", "i", "f", "o", "|", "0", "|", "6", "4", "4", "|", "2", "0", "2",
       "4", "\n">>,
     \* stat: unknown
     <<"s", "t", "a", "t", ":", " ", "u", "n", "k", "n", "o", "w", "n", "\n">>}

(***************************************************************************)
(* The handlers, one action per stretch between two awaits.                *)
(***************************************************************************)

\* listDir, up to the await of the detailed listing
ListDirCall(clusterId, dirPath) ==
    /\ opc = "idle"
    /\ op' = [name |-> "listDir", clusterId |-> clusterId, dirPath |-> dirPath]
    /\ kubectlExec(clusterId, "detailed",
                   Cmd("ls", <<"-la", "--color=never">>, Undefined, NormalizeDir(dirPath)))
    /\ UNCHANGED log
    /\ UNCHANGED notOps

\* listDir after the detailed listing: parse and return, or (inner catch)
\* issue the simplified listing
ListDirDetailedDone(outcome) ==
    /\ op.name = "listDir"
    /\ Resumes("detailed", outcome)
    /\ IF outcome.ok
       THEN Returns([success |-> TRUE,
                     data |-> parseLsLaOutput(outcome.stdout, NormalizeDir(op.dirPath))])
       ELSE kubectlExec(op.clusterId, "fallback",
                        Cmd("ls", <<"-1ap">>, Undefined, NormalizeDir(op.dirPath)))
    /\ UNCHANGED op
    /\ UNCHANGED notOps

\* listDir after the simplified listing: synthesize entries and return, or
\* (outer catch) return the failure
ListDirFallbackDone(outcome) ==
    /\ op.name = "listDir"
    /\ Resumes("fallback", outcome)
    /\ IF outcome.ok
       THEN Returns([success |-> TRUE,
                     data |-> SimpleLines(Split(outcome.stdout, "\n"),
                                         NormalizeDir(op.dirPath))])
       ELSE CatchAll(outcome.error)
    /\ UNCHANGED op
    /\ UNCHANGED notOps

\* { content: "", truncated: false, size: fileSize, isBinary: true }
BinaryContent(fileSize) ==
    [content |-> <<>>, truncated |-> FALSE, size |-> fileSize, isBinary |-> TRUE]

\* readFile, up to the await of the size probe
ReadFileCall(clusterId, filePath, maxSize) ==
    /\ opc = "idle"
    /\ op' = [name |-> "readFile", clusterId |-> clusterId, filePath |-> filePath, maxSize |-> maxSize,
              limit |-> IF maxSize = Undefined THEN Num(MAX_FILE_SIZE) ELSE maxSize,
              fileSize |-> NaN, truncated |-> FALSE]
    /\ kubectlExec(clusterId, "size", Cmd("stat", <<"-c", "%s">>, Undefined, filePath))
    /\ UNCHANGED log
    /\ UNCHANGED notOps

\* (mutant) readFile samples the content whatever the extension
ReadFileSizeDone_AlwaysSample(outcome) ==
    /\ op.name = "readFile"
    /\ Resumes("size", outcome)
    /\ IF outcome.ok
       THEN /\ op' = [op EXCEPT !.fileSize = ParseInt(Trim(outcome.stdout))]
            /\ kubectlExec(op.clusterId, "sample", Cmd("head", <<"-c">>, Some(512), op.filePath))
       ELSE /\ CatchAll(outcome.error)
            /\ UNCHANGED op
    /\ UNCHANGED notOps

\* readFile after the size probe: the extension check, then the sample
ReadFileSizeDone(outcome) ==
    /\ op.name = "readFile"
    /\ Resumes("size", outcome)
    /\ IF outcome.ok
       THEN LET fileSize == ParseInt(Trim(outcome.stdout)) IN
            /\ op' = [op EXCEPT !.fileSize = fileSize]
            /\ IF isBinaryByExtension(op.filePath)
               THEN Returns([success |-> TRUE, data |-> BinaryContent(fileSize)])
               ELSE kubectlExec(op.clusterId, "sample",
                                Cmd("head", <<"-c">>, Some(512), op.filePath))
       ELSE /\ CatchAll(outcome.error)
            /\ UNCHANGED op
    /\ UNCHANGED notOps

\* (mutant) readFile truncates a file whose size equals the limit
ReadFileSampleDone_AtLeast(outcome) ==
    /\ op.name = "readFile"
    /\ Resumes("sample", outcome)
    /\ IF outcome.ok /\ Includes(outcome.stdout, <<NUL>>)
       THEN /\ Returns([success |-> TRUE, data |-> BinaryContent(op.fileSize)])
            /\ UNCHANGED op
       ELSE IF GreaterThan(op.fileSize, op.limit) \/ (op.fileSize # NaN /\ op.fileSize = op.limit)
            THEN /\ kubectlExec(op.clusterId, "content",
                                Cmd("head", <<"-c">>, op.limit, op.filePath))
                 /\ op' = [op EXCEPT !.truncated = TRUE]
            ELSE /\ kubectlExec(op.clusterId, "content", Cmd("cat", <<>>, Undefined, op.filePath))
                 /\ UNCHANGED op
    /\ UNCHANGED notOps

\* (mutant) readFile gives up when the sample cannot be fetched
ReadFileSampleDone_FailOnSample(outcome) ==
    /\ op.name = "readFile"
    /\ Resumes("sample", outcome)
    /\ IF ~outcome.ok
       THEN /\ CatchAll(outcome.error)
            /\ UNCHANGED op
       ELSE IF Includes(outcome.stdout, <<NUL>>)
       THEN /\ Returns([success |-> TRUE, data |-> BinaryContent(op.fileSize)])
            /\ UNCHANGED op
       ELSE IF GreaterThan(op.fileSize, op.limit)
            THEN /\ kubectlExec(op.clusterId, "content",
                                Cmd("head", <<"-c">>, op.limit, op.filePath))
                 /\ op' = [op EXCEPT !.truncated = TRUE]
            ELSE /\ kubectlExec(op.clusterId, "content", Cmd("cat", <<>>, Undefined, op.filePath))
                 /\ UNCHANGED op
    /\ UNCHANGED notOps

\* (mutant) readFile fetches the content of a file it classified binary
ReadFileSampleDone_FetchAnyway(outcome) ==
    /\ op.name = "readFile"
    /\ Resumes("sample", outcome)
    /\ IF GreaterThan(op.fileSize, op.limit)
       THEN /\ kubectlExec(op.clusterId, "content",
                           Cmd("head", <<"-c">>, op.limit, op.filePath))
            /\ op' = [op EXCEPT !.truncated = TRUE]
       ELSE /\ kubectlExec(op.clusterId, "content", Cmd("cat", <<>>, Undefined, op.filePath))
            /\ UNCHANGED op
    /\ UNCHANGED notOps

\* readFile after the sample: binary on a null byte; else (also when the
\* sample failed, inner catch) the content fetch, `head -c limit` with
\* truncated = true when fileSize > limit and `cat` otherwise
ReadFileSampleDone(outcome) ==
    /\ op.name = "readFile"
    /\ Resumes("sample", outcome)
    /\ IF outcome.ok /\ Includes(outcome.stdout, <<NUL>>)
       THEN /\ Returns([success |-> TRUE, data |-> BinaryContent(op.fileSize)])
            /\ UNCHANGED op
       ELSE IF GreaterThan(op.fileSize, op.limit)
            THEN /\ kubectlExec(op.clusterId, "content",
                                Cmd("head", <<"-c">>, op.limit, op.filePath))
                 /\ op' = [op EXCEPT !.truncated = TRUE]
            ELSE /\ kubectlExec(op.clusterId, "content", Cmd("cat", <<>>, Undefined, op.filePath))
                 /\ UNCHANGED op
    /\ UNCHANGED notOps

\* (mutant) readFile reports the length of the content as the size
ReadFileContentDone_ContentLength(outcome) ==
    /\ op.name = "readFile"
    /\ Resumes("content", outcome)
    /\ IF outcome.ok
       THEN Returns([success |-> TRUE,
                     data |-> [content |-> outcome.stdout,
                               truncated |-> op.truncated,
                               size |-> Num(Len(outcome.stdout)), isBinary |-> FALSE]])
       ELSE CatchAll(outcome.error)
    /\ UNCHANGED op
    /\ UNCHANGED notOps

\* readFile after the content fetch
ReadFileContentDone(outcome) ==
    /\ op.name = "readFile"
    /\ Resumes("content", outcome)
    /\ IF outcome.ok
       THEN Returns([success |-> TRUE,
                     data |-> [content |-> outcome.stdout,
                               truncated |-> op.truncated,
                               size |-> op.fileSize, isBinary |-> FALSE]])
       ELSE CatchAll(outcome.error)
    /\ UNCHANGED op
    /\ UNCHANGED notOps

\* statPath, up to the await of the stat call
StatPathCall(clusterId, targetPath) ==
    /\ opc = "idle"
    /\ op' = [name |-> "statPath", clusterId |-> clusterId, targetPath |-> targetPath]
    /\ kubectlExec(clusterId, "stat", Cmd("stat", <<"-c", "%F|%s|%a|%y">>, Undefined, targetPath))
    /\ UNCHANGED log
    /\ UNCHANGED notOps

\* (mutant) statPath does not recognize a symbolic link
StatType_NoSymlink(typeStr) ==
    IF Includes(typeStr, <<"d", "i", "r", "e", "c", "t", "o", "r", "y">>) THEN "directory"
    ELSE IF Includes(typeStr, <<"r", "e", "g", "u", "l", "a", "r">>) THEN "file"
    ELSE "other"

\* The type statPath reports for the type text of stat
StatType(typeStr) ==
    IF Includes(typeStr, <<"d", "i", "r", "e", "c", "t", "o", "r", "y">>) THEN "directory"
    ELSE IF Includes(typeStr, <<"r", "e", "g", "u", "l", "a", "r">>) THEN "file"
    ELSE IF Includes(typeStr, <<"s", "y", "m", "b", "o", "l", "i", "c">>) THEN "symlink"
    ELSE "other"

\* statPath after the stat call
StatPathDone(outcome) ==
    /\ op.name = "statPath"
    /\ Resumes("stat", outcome)
    /\ IF outcome.ok
       THEN LET parts == Split(Trim(outcome.stdout), "|") IN
            Returns([success |-> TRUE,
                     data |-> [type |-> StatType(parts[1]),
                               size |-> IF Len(parts) >= 2 THEN ParseInt(parts[2])
                                        ELSE NaN,
                               permissions |-> IF 3 <= Len(parts) THEN Some(parts[3]) ELSE Undefined,
                               modified |-> IF 4 <= Len(parts) THEN Some(parts[4]) ELSE Undefined]])
       ELSE CatchAll(outcome.error)
    /\ UNCHANGED op
    /\ UNCHANGED notOps

\* downloadFile, up to the await of cat
DownloadFileCall(clusterId, filePath) ==
    /\ opc = "idle"
    /\ op' = [name |-> "downloadFile", clusterId |-> clusterId, filePath |-> filePath]
    /\ kubectlExec(clusterId, "download", Cmd("cat", <<>>, Undefined, filePath))
    /\ UNCHANGED log
    /\ UNCHANGED notOps

\* (mutant) downloadFile runs cat a second time when the first attempt failed
DownloadFileDone_Retry(outcome) ==
    /\ op.name = "downloadFile"
    /\ Resumes("download", outcome)
    /\ IF outcome.ok THEN Returns([success |-> TRUE, data |-> outcome.stdout])
       ELSE IF log = <<>> THEN kubectlExec(op.clusterId, "download", pending.cmd)
       ELSE CatchAll(outcome.error)
    /\ UNCHANGED op
    /\ UNCHANGED notOps

\* downloadFile after cat
DownloadFileDone(outcome) ==
    /\ op.name = "downloadFile"
    /\ Resumes("download", outcome)
    /\ IF outcome.ok THEN Returns([success |-> TRUE, data |-> outcome.stdout])
       ELSE CatchAll(outcome.error)
    /\ UNCHANGED op
    /\ UNCHANGED notOps

\* (mutant) deletePath removes recursively whatever isDirectory is
DeletePathCall_AlwaysRecursive(clusterId, targetPath, isDirectory) ==
    /\ opc = "idle"
    /\ op' = [name |-> "deletePath", clusterId |-> clusterId, targetPath |-> targetPath,
              isDirectory |-> isDirectory]
    /\ kubectlExec(clusterId, "rm", Cmd("rm", <<"-rf">>, Undefined, targetPath))
    /\ UNCHANGED log
    /\ UNCHANGED notOps

\* deletePath, up to the await of rm
DeletePathCall(clusterId, targetPath, isDirectory) ==
    /\ opc = "idle"
    /\ op' = [name |-> "deletePath", clusterId |-> clusterId, targetPath |-> targetPath,
              isDirectory |-> isDirectory]
    /\ IF isDirectory
       THEN kubectlExec(clusterId, "rm", Cmd("rm", <<"-rf">>, Undefined, targetPath))
       ELSE kubectlExec(clusterId, "rm", Cmd("rm", <<"-f">>, Undefined, targetPath))
    /\ UNCHANGED log
    /\ UNCHANGED notOps

\* deletePath after rm
DeletePathDone(outcome) ==
    /\ op.name = "deletePath"
    /\ Resumes("rm", outcome)
    /\ IF outcome.ok THEN Returns([success |-> TRUE]) ELSE CatchAll(outcome.error)
    /\ UNCHANGED op
    /\ UNCHANGED notOps

\* One of the five handlers built on kubectlExec is invoked.
OpsCalls ==
    \E clusterId \in HandlerClusterIds :
    \/ \E dirPath \in Dirs : ListDirCall(clusterId, dirPath)
    \/ \E filePath \in FilePaths, maxSize \in {Undefined, Some(4)} : ReadFileCall(clusterId, filePath, maxSize)
    \/ \E targetPath \in FilePaths \cup Dirs : StatPathCall(clusterId, targetPath)
    \/ \E filePath \in FilePaths : DownloadFileCall(clusterId, filePath)
    \/ \E targetPath \in FilePaths \cup Dirs, isDirectory \in BOOLEAN :
           DeletePathCall(clusterId, targetPath, isDirectory)

\* The handler resumes from its await.
OpsResumes ==
    \/ \E outcome \in Awaited("detailed", OutputsOver(DetailedLines)) :
           ListDirDetailedDone(outcome)
    \/ \E outcome \in Awaited("fallback", OutputsOver(SimpleOutputLines)) :
           ListDirFallbackDone(outcome)
    \/ \E outcome \in Awaited("size", ReadOutputs.size) : ReadFileSizeDone(outcome)
    \/ \E outcome \in Awaited("sample", ReadOutputs.sample) : ReadFileSampleDone(outcome)
    \/ \E outcome \in Awaited("content", ReadOutputs.content) : ReadFileContentDone(outcome)
    \/ \E outcome \in Awaited("stat", StatOutputs) : StatPathDone(outcome)
    \/ \E outcome \in Awaited("download", ReadOutputs.content) : DownloadFileDone(outcome)
    \/ \E outcome \in Awaited("rm", {<<>>}) : DeletePathDone(outcome)

\* One invocation of one of the five handlers built on kubectlExec.
NextOps == OpsCalls \/ OpsResumes

SpecOps == Init /\ [][NextOps]_vars

\* kubectlExec(clusterId, namespace, pod, container, command, options), up
\* to its await
KubectlExecCall(clusterId, cmd, options) ==
    /\ opc = "idle"
    /\ op' = [name |-> "kubectlExec", clusterId |-> clusterId]
    /\ kubectlExecWith(clusterId, "exec", cmd, options)
    /\ UNCHANGED log
    /\ UNCHANGED notOps

\* kubectlExec after its await: `return stdout`, or the rejection of
\* execFileAsync passes through
KubectlExecDone(outcome) ==
    /\ op.name = "kubectlExec"
    /\ Resumes("exec", outcome)
    /\ IF outcome.ok THEN Completes([how |-> "return", value |-> outcome.stdout])
       ELSE Completes([how |-> "throw", error |-> outcome.error])
    /\ UNCHANGED op
    /\ UNCHANGED notOps

\* A call of kubectlExec, on its own, with the options a call can carry and
\* the runs its child process can have, or from one of the five handlers.
NextGateway ==
    \/ \E clusterId \in HandlerClusterIds,
          cmd \in {Cmd("cat", <<>>, Undefined, <<"/", "a", ".", "t", "x", "t">>),
                   Cmd("ls", <<"-1ap">>, Undefined, <<"/">>)},
          options \in {Undefined, Some([timeout |-> Undefined]),
                       Some([timeout |-> Some(3)]), Some([timeout |-> Some(20000)])} :
           KubectlExecCall(clusterId, cmd, options)
    \/ \E run \in (IF opc = "await" /\ pending.label = "exec"
                    THEN {Run(spawns, code, millis, stdout, more) :
                             spawns \in BOOLEAN, code \in {0, 1},
                             millis \in {5, EXEC_TIMEOUT + 1},
                             stdout \in {<<>>, <<"a", "b">>},
                             more \in {0, MaxBuffer + 1}}
                    ELSE {}) :
           KubectlExecDone(ExecFileAsync(pending.cmd, pending.options, run))
    \/ NextOps

SpecGateway == Init /\ [][NextGateway]_vars

\* One invocation of one of the six handlers.
NextFacade ==
    \/ opc = "idle" /\ \E u \in {1} : UploadCalls(u)
    \/ \E u \in {1} : UploadEvents(u)
    \/ (\A u \in Uploads : upc[u] = "idle") /\ OpsCalls
    \/ OpsResumes

SpecFacade == Init /\ [][NextFacade]_vars

(***************************************************************************)
(* The renderer: PodFsPage and FileTree, one action per event handler and  *)
(* per continuation of an await.                                           *)
(***************************************************************************)
\* Bounds: FileTree instances mounted in a run, requests in flight at once,
\* and files in one drop.
MaxMounts == 2
MaxInFlight == 2
MaxDrop == 2

\* The local files a user may choose or drop: one of exactly 1 MiB, and one
\* a byte larger.
LocalFiles ==
    {[name |-> <<"g">>, size |-> 1024 * 1024],
     [name |-> <<"h">>, size |-> 1024 * 1024 + 1]}

\* What a listDir request for `path` may be answered with: the entries in
\* the order the main process returns them, each with the path the handler
\* gives it, the normalized directory followed by the name.
ListDirResults(path) ==
    LET dir == NormalizeDir(path)
    IN {[success |-> TRUE,
         data |-> <<[name |-> <<"a">>, path |-> dir \o <<"a">>, isDirectory |-> FALSE],
                    [name |-> <<"c">>, path |-> dir \o <<"c">>, isDirectory |-> TRUE],
                    [name |-> <<"B">>, path |-> dir \o <<"B">>, isDirectory |-> FALSE]>>],
        [success |-> FALSE, error |-> "Command failed"]}

\* What a deletePath or an uploadFile request may be answered with: an
\* envelope, or the rejection of ipc.invoke.
Answers ==
    {[how |-> "return", success |-> TRUE],
     [how |-> "return", success |-> FALSE, error |-> "Command failed"],
     [how |-> "throw", error |-> "Error invoking remote method"]}

\* a.localeCompare(b): the characters in the order of the collation, with
\* blank and punctuation before the letters and "B" between "a" and "c".
\* (No two names of the inputs differ in the case of a letter only, so the
\* comparison by character agrees with the collation's levels.)
RECURSIVE LocaleCompare(_, _)
LocaleCompare(a, b) ==
    LET order == <<" ", "-", ".", ">", "a", "b", "B", "c", "e", "f", "g", "h",
                   "i", "k", "l", "n", "o", "s", "t", "x">>
        rank(c) == CHOOSE i \in 1..Len(order) : order[i] = c
    IN IF a = <<>> THEN (IF b = <<>> THEN 0 ELSE -1)
       ELSE IF b = <<>> THEN 1
       ELSE IF rank(Head(a)) < rank(Head(b)) THEN -1
       ELSE IF rank(Head(a)) > rank(Head(b)) THEN 1
       ELSE LocaleCompare(Tail(a), Tail(b))

\* (mutant) loadDirectory stores the entries in the order it received them
Sort_AsReturned(data) == data

\* data.sort((a, b) => { if (a.isDirectory !== b.isDirectory)
\*                          return a.isDirectory ? -1 : 1;
\*                        return a.name.localeCompare(b.name); }):
\* a stable sort with that comparator.
RECURSIVE Sort(_)
Sort(data) ==
    IF data = <<>> THEN <<>>
    ELSE LET CompareEntries(a, b) ==
                 IF a.isDirectory # b.isDirectory
                 THEN (IF a.isDirectory THEN -1 ELSE 1)
                 ELSE LocaleCompare(a.name, b.name)
             front == Sort(DropLast(data))
             e == data[Len(data)]
             after == {i \in 1..Len(front) : CompareEntries(e, front[i]) < 0}
             k == IF after = {} THEN Len(front) + 1
                  ELSE CHOOSE i \in after : \A j \in after : i <= j
         IN SubSeq(front, 1, k - 1) \o <<e>> \o SubSeq(front, k, Len(front))

\* A request of the FileTree instance `id`, not yet answered.
Request(id, channel, args) == [tree |-> id, channel |-> channel, args |-> args]

\* The sequence without its i-th element.
Without(seq, i) == SubSeq(seq, 1, i - 1) \o SubSeq(seq, i + 1, Len(seq))

\* loadDirectory(path), up to its await, called by the instance `id`:
\* setLoading(true); setError(null); ipc.invoke("listDir", ..., path)
loadDirectory(st, id, path) ==
    [st EXCEPT !.tree = IF st.tree.id = id
                        THEN [@ EXCEPT !.loading = TRUE, !.error = Null]
                        ELSE @,
               !.inflight = Append(@, Request(id, "listDir", [path |-> path]))]

\* The part of the renderer's state the handlers of FileTree work on.
RendererState ==
    [tree |-> tree, inflight |-> inflight, notice |-> notice, offered |-> offered]

\* The handlers leave the renderer in state st.
Becomes(st) ==
    /\ tree' = st.tree
    /\ inflight' = st.inflight
    /\ notice' = st.notice
    /\ offered' = st.offered
    /\ UNCHANGED <<page, notRenderer>>

\* The pod <select> of PodFsPage: onChange. With browsing false the
\* FileTree is no longer rendered, and its state is gone.
SelectPod(p) ==
    /\ page' = [page EXCEPT !.selectedPod = p, !.browsing = FALSE,
                            !.currentPath = <<"/">>]
    /\ tree' = NoTree
    /\ UNCHANGED <<inflight, notice, offered, notRenderer>>

\* The "Browse Files" button: setBrowsing(true). A FileTree is mounted, and
\* its effect calls loadDirectory(currentPath).
BrowseFiles ==
    /\ page.selectedPod # ""
    /\ ~page.browsing
    /\ page.mounts < MaxMounts
    /\ Len(inflight) < MaxInFlight
    /\ page' = [page EXCEPT !.browsing = TRUE, !.mounts = @ + 1]
    /\ LET id == page.mounts + 1
           fresh == [id |-> id, entries |-> <<>>, loading |-> TRUE, error |-> Null,
                     entriesFor |-> Null, errorFor |-> Null,
                     confirmDelete |-> Null, deleting |-> FALSE,
                     uploading |-> FALSE, contextMenu |-> Null]
       IN /\ tree' = fresh
          /\ inflight' = Append(inflight, Request(id, "listDir",
                                                  [path |-> page.currentPath]))
    /\ UNCHANGED <<notice, offered, notRenderer>>

\* loadDirectory after its await. (entriesFor and errorFor are history: the
\* path of the request whose answer the entries, or the error, came from.)
ListDirResponse(i, answer) ==
    /\ inflight[i].channel = "listDir"
    /\ inflight' = Without(inflight, i)
    \* the setters have an effect while the instance is still mounted
    /\ tree' = IF tree.id # inflight[i].tree THEN tree
               ELSE IF answer.success
               THEN [tree EXCEPT !.entries = Sort(answer.data), !.loading = FALSE,
                                 !.entriesFor = Some(inflight[i].args.path)]
               ELSE [tree EXCEPT !.error = Some(answer.error), !.loading = FALSE,
                                 !.errorFor = Some(inflight[i].args.path)]
    /\ UNCHANGED <<page, notice, offered, notRenderer>>

\* The rows of the listing that can be clicked: they are rendered when the
\* tree is neither loading nor in error, and the overlay of the context menu
\* or of the confirm dialog, when there is one, lies over them.
Rows ==
    IF /\ tree # NoTree
       /\ ~tree.loading
       /\ tree.error = Null
       /\ tree.contextMenu = Null
       /\ tree.confirmDelete = Null
    THEN {tree.entries[k] : k \in 1..Len(tree.entries)}
    ELSE {}

\* (mutant) the Cancel button left enabled while a delete is in flight
CancelClick_Enabled ==
    /\ tree # NoTree
    /\ tree.confirmDelete # Null
    /\ Becomes([RendererState EXCEPT !.tree.confirmDelete = Null])

\* The Cancel button of the confirm dialog, disabled while deleting:
\* setConfirmDelete(null)
CancelClick ==
    /\ tree # NoTree
    /\ tree.confirmDelete # Null
    /\ ~tree.deleting
    /\ Becomes([RendererState EXCEPT !.tree.confirmDelete = Null])

\* The Delete button of the confirm dialog, disabled while deleting:
\* handleDelete up to its await.
HandleDelete ==
    /\ tree # NoTree
    /\ tree.confirmDelete # Null
    /\ ~tree.deleting
    /\ Len(inflight) < MaxInFlight
    /\ LET confirmDelete == tree.confirmDelete[1]
       IN Becomes([RendererState EXCEPT
                      !.tree.deleting = TRUE,
                      !.inflight = Append(@, Request(tree.id, "deletePath",
                                              [path |-> confirmDelete.path,
                                               isDirectory |-> confirmDelete.isDirectory,
                                               name |-> confirmDelete.name,
                                               currentPath |-> page.currentPath]))])

\* What `finally { setX(false) }` does to the state of the instance `id`.
Finally(st, id, flag) ==
    IF st.tree.id # id THEN st
    ELSE IF flag = "deleting" THEN [st EXCEPT !.tree.deleting = FALSE]
    ELSE [st EXCEPT !.tree.uploading = FALSE]

\* handleDelete after its await.
DeletePathResponse(i, answer) ==
    /\ inflight[i].channel = "deletePath"
    /\ LET request == inflight[i]
           id == request.tree
           answered == [RendererState EXCEPT !.inflight = Without(@, i)]
           done ==
               IF answer.how = "throw"
               THEN [answered EXCEPT !.notice = [kind |-> "error"]]
               ELSE IF answer.success
               THEN loadDirectory(
                        [answered EXCEPT
                            !.notice = [kind |-> "ok"],
                            !.tree = IF tree.id = id
                                     THEN [@ EXCEPT !.confirmDelete = Null] ELSE @],
                        id, request.args.currentPath)
               ELSE [answered EXCEPT !.notice = [kind |-> "error"]]
       IN Becomes(Finally(done, id, "deleting"))

\* (mutant) handleUpload without the test of the size
handleUpload_NoLimit(st, file) ==
    [st EXCEPT !.offered = @ \cup {file},
               !.tree.uploading = TRUE,
               !.inflight = Append(@, Request(st.tree.id, "readFileAsBase64",
                                              [name |-> file.name, size |-> file.size,
                                               currentPath |-> page.currentPath]))]

\* handleUpload(file), up to its first await: the file is refused when it is
\* larger than 1 MiB, else setUploading(true) and the file is read.
handleUpload(st, file) ==
    IF file.size > 1024 * 1024
    THEN [st EXCEPT !.offered = @ \cup {file},
                    !.notice = [kind |-> "error",
                                text |-> "File too large. Maximum upload size is 1 MB."]]
    ELSE [st EXCEPT !.offered = @ \cup {file},
                    !.tree.uploading = TRUE,
                    !.inflight = Append(@, Request(st.tree.id, "readFileAsBase64",
                                                   [name |-> file.name, size |-> file.size,
                                                    currentPath |-> page.currentPath]))]

\* The Upload button, disabled while uploading, and the file chosen in the
\* dialog it opens: onChange of the file input.
ChooseFile(file) ==
    /\ tree # NoTree
    /\ ~tree.uploading
    /\ Len(inflight) < MaxInFlight
    /\ Becomes(handleUpload(RendererState, file))

\* for (const file of files) { handleUpload(file); }
RECURSIVE UploadEach(_, _)
UploadEach(st, files) ==
    IF files = <<>> THEN st
    ELSE UploadEach(handleUpload(st, Head(files)), Tail(files))

\* handleDrop: files dropped on the file list.
HandleDrop(files) ==
    /\ tree # NoTree
    /\ Len(inflight) + Len(files) <= MaxInFlight
    /\ Becomes(UploadEach(RendererState, files))

\* handleUpload after `await readFileAsBase64(file)`: the file was read and
\* ipc.invoke("uploadFile", ..., `${currentPath}${file.name}`, base64) is
\* called, or reading failed.
FileRead(i, ok) ==
    /\ inflight[i].channel = "readFileAsBase64"
    /\ LET request == inflight[i]
       IN IF ok
          THEN Becomes([RendererState EXCEPT
                           !.inflight[i] =
                               Request(request.tree, "uploadFile",
                                       [remotePath |-> request.args.currentPath
                                                          \o request.args.name,
                                        name |-> request.args.name,
                                        size |-> request.args.size,
                                        currentPath |-> request.args.currentPath])])
          ELSE Becomes(Finally(
                   [RendererState EXCEPT
                       !.inflight = Without(@, i),
                       !.notice = [kind |-> "error"]],
                   request.tree, "uploading"))

\* handleUpload after `await ipc.invoke("uploadFile", ...)`.
UploadFileResponse(i, answer) ==
    /\ inflight[i].channel = "uploadFile"
    /\ LET request == inflight[i]
           id == request.tree
           answered == [RendererState EXCEPT !.inflight = Without(@, i)]
           done ==
               IF answer.how = "throw"
               THEN [answered EXCEPT !.notice = [kind |-> "error"]]
               ELSE IF answer.success
               THEN loadDirectory(
                        [answered EXCEPT !.notice = [kind |-> "ok"]],
                        id, request.args.currentPath)
               ELSE [answered EXCEPT !.notice = [kind |-> "error"]]
       IN Becomes(Finally(done, id, "uploading"))

NextRenderer ==
    \/ \E p \in {"ns/p1", "ns/p2"} : SelectPod(p)
    \/ BrowseFiles
    \* the delete mark of a row: setConfirmDelete(entry)
    \/ \E entry \in Rows :
           Becomes([RendererState EXCEPT !.tree.confirmDelete = Some(entry)])
    \* handleContextMenu(e, entry)
    \/ \E entry \in Rows :
           Becomes([RendererState EXCEPT !.tree.contextMenu = Some(entry)])
    \* closeContextMenu: a click on the overlay of the menu, or Escape
    \/ /\ tree # NoTree
       /\ tree.contextMenu # Null
       /\ Becomes([RendererState EXCEPT !.tree.contextMenu = Null])
    \* "Delete" of the context menu: setConfirmDelete(contextMenu.entry);
    \* closeContextMenu()
    \/ /\ tree # NoTree
       /\ tree.contextMenu # Null
       /\ Becomes([RendererState EXCEPT !.tree.confirmDelete = tree.contextMenu,
                                        !.tree.contextMenu = Null])
    \* a click on the overlay of the confirm dialog:
    \* !deleting && setConfirmDelete(null)
    \/ /\ tree # NoTree
       /\ tree.confirmDelete # Null
       /\ Becomes([RendererState EXCEPT
                      !.tree.confirmDelete = IF ~tree.deleting THEN Null ELSE @])
    \/ CancelClick
    \/ HandleDelete
    \/ \E file \in LocalFiles : ChooseFile(file)
    \/ \E files \in UNION {[1..n -> LocalFiles] : n \in 1..MaxDrop} : HandleDrop(files)
    \/ \E i \in {j \in 1..Len(inflight) : inflight[j].channel = "listDir"} :
           \E answer \in ListDirResults(inflight[i].args.path) :
               ListDirResponse(i, answer)
    \/ \E i \in 1..Len(inflight), answer \in Answers : DeletePathResponse(i, answer)
    \/ \E i \in 1..Len(inflight), ok \in BOOLEAN : FileRead(i, ok)
    \/ \E i \in 1..Len(inflight), answer \in Answers : UploadFileResponse(i, answer)

\* The renderer starts on a host whose temporary directory can be read.
RendererInit == Init /\ host.tempDirectory.readable

SpecRenderer == RendererInit /\ [][NextRenderer]_vars

(***************************************************************************)
(* The renderer: FileViewer, one action per event handler and per          *)
(* continuation of an await. The parent renders it, without a key, while   *)
(* selectedFile is not null, so that the instance and its state live on    *)
(* when filePath changes.                                                  *)
(***************************************************************************)
\* Bounds: FileViewer instances mounted in a run, and requests of the
\* FileViewer in flight at once.
MaxOpens == 2
MaxViewerInFlight == 2

\* What a readFile request for filePath may be answered with: the
\* handler's envelope (for the large file the head slice, marked truncated;
\* for the binary file no content), or the rejection of ipc.invoke.
ReadFileResults(filePath) ==
    {[how |-> "return", success |-> TRUE,
      data |-> IF filePath = <<"/", "a">>
               THEN [content |-> <<"a">>, truncated |-> FALSE, size |-> 1,
                     isBinary |-> FALSE]
               ELSE IF filePath = <<"/", "t">>
               THEN [content |-> <<"t">>, truncated |-> TRUE,
                     size |-> MAX_FILE_SIZE + 1, isBinary |-> FALSE]
               ELSE [content |-> <<>>, truncated |-> FALSE, size |-> 1,
                     isBinary |-> TRUE]],
     [how |-> "return", success |-> FALSE, error |-> "Command failed"],
     [how |-> "throw", error |-> "Error invoking remote method"]}

\* onFileSelect(path) of the FileTree, that is setSelectedFile(path) of the
\* parent. With no FileViewer yet, one is mounted in its initial state; a
\* mounted one is rendered again with the new filePath and keeps its state.
\* In both cases loadFile is new, and the effect calls it:
\* setLoading(true); setError(null); ipc.invoke("readFile", ..., filePath).
\* (loadedFrom is history: the path of the request whose answer the editor's
\* text came from.)
SelectFile(filePath) ==
    /\ Len(viewerRequests) < MaxViewerInFlight
    /\ IF viewer = NoViewer
       THEN /\ viewerMounts < MaxOpens
            /\ viewerMounts' = viewerMounts + 1
            /\ viewer' = [id |-> viewerMounts + 1, filePath |-> filePath,
                          content |-> Null, editedContent |-> <<>>,
                          isModified |-> FALSE, loading |-> TRUE,
                          saving |-> FALSE, error |-> Null,
                          loadedFrom |-> <<>>]
       ELSE /\ filePath # viewer.filePath
            /\ viewer' = [viewer EXCEPT !.filePath = filePath,
                                        !.loading = TRUE, !.error = Null]
            /\ UNCHANGED viewerMounts
    /\ viewerRequests' = Append(viewerRequests,
                                [view |-> viewer'.id, channel |-> "readFile",
                                 path |-> filePath])
    /\ UNCHANGED <<notice, notViewer>>

\* onClose(), that is setSelectedFile(null) of the parent: the FileViewer is
\* unmounted and its state is gone.
CloseViewer ==
    /\ viewer # NoViewer
    /\ viewer' = NoViewer
    /\ UNCHANGED <<viewerRequests, viewerMounts, notice, notViewer>>

\* loadFile after its await. The setters have an effect while the instance
\* that called loadFile is still mounted.
ReadFileResponse(i, answer) ==
    /\ viewerRequests[i].channel = "readFile"
    /\ viewerRequests' = Without(viewerRequests, i)
    /\ viewer' = IF viewer.id # viewerRequests[i].view THEN viewer
                 ELSE IF answer.how = "return" /\ answer.success
                 THEN [viewer EXCEPT !.content = Some(answer.data),
                                     !.editedContent = answer.data.content,
                                     !.isModified = FALSE,
                                     !.loading = FALSE,
                                     !.loadedFrom = viewerRequests[i].path]
                 ELSE [viewer EXCEPT !.error = Some(answer.error),
                                     !.loading = FALSE]
    /\ UNCHANGED <<viewerMounts, notice, notViewer>>

\* (mutant) the editor of a truncated file accepts edits
HandleEditorChange_Writable(value) ==
    /\ viewer # NoViewer
    /\ viewer.content # Null
    /\ ~viewer.loading
    /\ ~viewer.content[1].isBinary
    /\ value # viewer.editedContent
    /\ viewer' = [viewer EXCEPT !.editedContent = value,
                                !.isModified = (value # viewer.content[1].content)]
    /\ UNCHANGED <<viewerRequests, viewerMounts, notice, notViewer>>

\* handleEditorChange(value): the user changed the editor's text. The editor
\* is rendered when content && !loading && !content.isBinary, and it is
\* read-only when content.truncated.
\* setEditedContent(value); setIsModified(value !== content?.content)
HandleEditorChange(value) ==
    /\ viewer # NoViewer
    /\ viewer.content # Null
    /\ ~viewer.loading
    /\ ~viewer.content[1].isBinary
    /\ ~viewer.content[1].truncated
    /\ value # viewer.editedContent
    /\ viewer' = [viewer EXCEPT !.editedContent = value,
                                !.isModified = (value # viewer.content[1].content)]
    /\ UNCHANGED <<viewerRequests, viewerMounts, notice, notViewer>>

\* The Save and Discard buttons are rendered when
\* isModified && !content?.isBinary.
ButtonsShown ==
    /\ viewer # NoViewer
    /\ viewer.isModified
    /\ viewer.content # Null => ~viewer.content[1].isBinary

\* handleSave, up to its await; the Save button is disabled while saving.
\* setSaving(true); base64 = stringToBase64(editedContent);
\* ipc.invoke("uploadFile", ..., filePath, base64)
\* (shown and loadedFrom are history: the content stored, and the path the
\* editor's text was loaded from, when the request was issued.)
HandleSave ==
    /\ ButtonsShown
    /\ ~viewer.saving
    /\ Len(viewerRequests) < MaxViewerInFlight
    /\ viewer' = [viewer EXCEPT !.saving = TRUE]
    /\ viewerRequests' =
           Append(viewerRequests,
                  [view |-> viewer.id, channel |-> "uploadFile",
                   path |-> viewer.filePath,
                   base64 |-> [encoding |-> "base64", text |-> viewer.editedContent],
                   editedContent |-> viewer.editedContent,
                   shown |-> viewer.content,
                   loadedFrom |-> viewer.loadedFrom])
    /\ UNCHANGED <<viewerMounts, notice, notViewer>>

\* handleSave after its await, with the editedContent of its closure:
\* on success Notifications.ok, setIsModified(false) and
\* setContent(prev => prev ? {...prev, content: editedContent, size} : prev);
\* otherwise Notifications.error; finally setSaving(false).
SaveResponse(i, answer) ==
    LET r == viewerRequests[i]
        ok == answer.how = "return" /\ answer.success
    IN /\ r.channel = "uploadFile"
       /\ viewerRequests' = Without(viewerRequests, i)
       /\ notice' = [kind |-> IF ok THEN "ok" ELSE "error"]
       /\ viewer' =
              IF viewer.id # r.view THEN viewer
              ELSE IF ok
              THEN [viewer EXCEPT
                        !.isModified = FALSE,
                        !.content = IF @ = Null THEN @
                                    ELSE Some([@[1] EXCEPT
                                                  !.content = r.editedContent,
                                                  !.size = Len(r.editedContent)]),
                        !.saving = FALSE]
              ELSE [viewer EXCEPT !.saving = FALSE]
       /\ UNCHANGED <<viewerMounts, notViewer>>

\* handleDiscard: if (content) { setEditedContent(content.content);
\*                               setIsModified(false); }
HandleDiscard ==
    /\ ButtonsShown
    /\ viewer' = IF viewer.content = Null THEN viewer
                 ELSE [viewer EXCEPT !.editedContent = viewer.content[1].content,
                                     !.isModified = FALSE]
    /\ UNCHANGED <<viewerRequests, viewerMounts, notice, notViewer>>

NextViewer ==
    \/ \E filePath \in {<<"/", "a">>, <<"/", "t">>, <<"/", "b">>} : SelectFile(filePath)
    \/ CloseViewer
    \/ \E i \in 1..Len(viewerRequests) :
           \E answer \in ReadFileResults(viewerRequests[i].path) :
               ReadFileResponse(i, answer)
    \/ \E value \in {<<"a">>, <<"x">>} : HandleEditorChange(value)
    \/ HandleSave
    \/ \E i \in 1..Len(viewerRequests), answer \in Answers : SaveResponse(i, answer)
    \/ HandleDiscard

SpecViewer == Init /\ [][NextViewer]_vars

(***************************************************************************)
(* The renderer: navigation in the FileTree.                               *)
(***************************************************************************)
\* Bound: the depth of the directories a run navigates to.
MaxDepth == 2

\* function parentPath(path)
parentPath(path) ==
    LET trimmed == IF EndsWith(path, "/") THEN DropLast(path) ELSE path
        slashes == {i \in 1..Len(trimmed) : trimmed[i] = "/"}
        \* trimmed.lastIndexOf("/"), counted from 0
        lastSlash == IF slashes = {} THEN -1
                     ELSE (CHOOSE i \in slashes : \A j \in slashes : j <= i) - 1
    IN IF lastSlash <= 0 THEN <<"/">> ELSE SubSeq(trimmed, 1, lastSlash + 1)

\* (mutant) navigateTo hands the path on as it is
navigateTo_Raw(path) ==
    /\ tree # NoTree
    /\ Cardinality({i \in 1..Len(path) : path[i] = "/"}) <= MaxDepth + 1
    /\ page' = [page EXCEPT !.currentPath = path]
    /\ IF path = page.currentPath
       THEN UNCHANGED <<tree, inflight>>
       ELSE /\ Len(inflight) < MaxInFlight
            /\ tree' = [tree EXCEPT !.loading = TRUE, !.error = Null]
            /\ inflight' = Append(inflight,
                                  Request(tree.id, "listDir", [path |-> path]))
    /\ UNCHANGED <<notice, offered, notRenderer>>

\* navigateTo(path): normalized = path.endsWith("/") ? path : `${path}/`;
\* onNavigate(normalized), which is setCurrentPath of the parent. When
\* currentPath changed, the effect on [currentPath, loadDirectory] calls
\* loadDirectory(currentPath): setLoading(true); setError(null);
\* ipc.invoke("listDir", ..., path).
navigateTo(path) ==
    LET normalized == IF EndsWith(path, "/") THEN path ELSE path \o <<"/">>
    IN /\ tree # NoTree
       /\ Cardinality({i \in 1..Len(normalized) : normalized[i] = "/"}) <= MaxDepth + 1
       /\ page' = [page EXCEPT !.currentPath = normalized]
       /\ IF normalized = page.currentPath
          THEN UNCHANGED <<tree, inflight>>
          ELSE /\ Len(inflight) < MaxInFlight
               /\ tree' = [tree EXCEPT !.loading = TRUE, !.error = Null]
               /\ inflight' = Append(inflight,
                                     Request(tree.id, "listDir", [path |-> normalized]))
       /\ UNCHANGED <<notice, offered, notRenderer>>

\* The paths of the breadcrumb: "/" for the root, and for the i-th segment
\* of currentPath.split("/").filter(Boolean)
\* "/" + breadcrumbSegments.slice(0, i + 1).join("/") + "/"
Breadcrumbs ==
    LET parts == Split(page.currentPath, "/")
        breadcrumbSegments == SelectSeq(parts, LAMBDA part : part # <<>>)
    IN {<<"/">>} \cup
       {<<"/">> \o JoinLines(SubSeq(breadcrumbSegments, 1, i), <<"/">>) :
            i \in 1..Len(breadcrumbSegments)}

NextBrowse ==
    \* one pod is selected and browsed in a run
    \/ page.mounts = 0 /\ SelectPod("ns/p1")
    \/ BrowseFiles
    \* handleEntryClick(entry); one file is opened in a run
    \/ \E entry \in Rows :
           IF entry.isDirectory THEN navigateTo(entry.path)
           ELSE viewer = NoViewer /\ SelectFile(entry.path)
    \* a segment of the breadcrumb
    \/ \E path \in Breadcrumbs : navigateTo(path)
    \* the ".." row, rendered with the rows when currentPath !== "/"
    \/ /\ tree # NoTree
       /\ ~tree.loading
       /\ tree.error = Null
       /\ tree.contextMenu = Null
       /\ tree.confirmDelete = Null
       /\ page.currentPath # <<"/">>
       /\ navigateTo(parentPath(page.currentPath))
    \/ \E file \in {f \in LocalFiles : f.size <= 1024 * 1024} : ChooseFile(file)
    \/ \E i \in 1..Len(inflight), ok \in BOOLEAN : FileRead(i, ok)
    \/ \E i \in 1..Len(inflight), answer \in Answers : UploadFileResponse(i, answer)
    \/ \E i \in {j \in 1..Len(inflight) : inflight[j].channel = "listDir"} :
           \E answer \in ListDirResults(inflight[i].args.path) :
               ListDirResponse(i, answer)

SpecBrowse == RendererInit /\ [][NextBrowse]_vars

(***************************************************************************)
(* Claims about the streaming upload channel.                              *)
(***************************************************************************)

\* The outcome the first terminal event of an upload stands for.
Calls(u) == resolveCalls[u] + rejectCalls[u]

IsCleanClose(ev) == ev.kind = "close" /\ ev.code = <<0>>
IsFailedClose(ev) == ev.kind = "close" /\ ev.code # <<0>>

\* C1: under any ordering and number of terminal events (error, watchdog,
\* close) the promise of an upload is settled exactly once: resolve and reject
\* are called once in total as soon as a terminal event has been delivered,
\* never again, and the outcome is the one the first terminal event stands for.
C1_SettledExactlyOnce ==
    \A u \in Uploads :
        /\ Calls(u) <= 1
        /\ firstEvent[u] = NoEvent => Calls(u) = 0
        /\ firstEvent[u] # NoEvent =>
            /\ Calls(u) = 1
            /\ settled[u]
            /\ firstEvent[u].kind = "timeout" =>
                   promise[u] = Rejected(UploadTimeoutError)
            /\ firstEvent[u].kind = "error" =>
                   promise[u] = Rejected(ErrorOf(firstEvent[u].error))
            /\ IsCleanClose(firstEvent[u]) => promise[u] = Fulfilled
            /\ IsFailedClose(firstEvent[u]) => promise[u].state = "rejected"

\* C1 witness: all three terminal events of the run were delivered to one
\* upload after its first one settled it.
C1_Witness ==
    /\ eventsLeft = 0
    /\ timerRuns[1] = 1
    /\ closes[1] >= 1
    /\ Calls(1) = 1

\* C2: the watchdog callback runs at most once; when it is the first terminal
\* event, the process is sent SIGTERM once and the upload fails once with the
\* timeout message, and a 'close' that follows does not settle it again.
C2_WatchdogTimeout ==
    \A u \in Uploads :
        /\ timerRuns[u] <= 1
        /\ firstEvent[u].kind = "timeout" =>
            /\ kills[u] = 1
            /\ rejectCalls[u] = 1
            /\ resolveCalls[u] = 0
            /\ promise[u] = Rejected(UploadTimeoutError)
            /\ envelope[u] = [success |-> FALSE,
                              error |-> [text |-> "Upload timed out after 30 seconds"]]

\* C2 witness: the watchdog fired first and a 'close' was delivered after it.
C2_Witness ==
    /\ firstEvent[1].kind = "timeout"
    /\ closes[1] >= 1

\* C3: once an upload is settled by 'close' or by 'error', its watchdog is
\* cancelled: it is not pending, has not run and has killed nothing.
C3_NoDanglingTimer ==
    \A u \in Uploads :
        firstEvent[u].kind \in {"close", "error"} =>
            /\ timer[u] = "cleared"
            /\ timerRuns[u] = 0
            /\ kills[u] = 0
            /\ ~ENABLED WatchdogFires(u)

\* C3 witness: an upload settled by a spawn error.
C3_Witness ==
    /\ firstEvent[1].kind = "error"
    /\ settled[1]
    /\ promise[1].state = "rejected"

\* C4: a returned upload carries the success envelope exactly when its first
\* terminal event was 'close' with exit code 0, else a failure envelope; and
\* it has returned as soon as a terminal event was delivered.
C4_SuccessIffCleanClose ==
    \A u \in Uploads :
        /\ firstEvent[u] # NoEvent => upc[u] = "done"
        /\ upc[u] = "done" =>
            /\ IsCleanClose(firstEvent[u]) => envelope[u] = [success |-> TRUE]
            /\ ~IsCleanClose(firstEvent[u]) =>
                   /\ envelope[u].success = FALSE
                   /\ DOMAIN envelope[u] = {"success", "error"}

\* C4 witness: an upload whose first terminal event was 'close' with a null
\* exit code has returned.
C4_Witness ==
    /\ upc[1] = "done"
    /\ firstEvent[1].kind = "close"
    /\ firstEvent[1].code = Null

\* The text of a byte stream: the UTF-8 decoding of all its bytes together.
RECURSIVE Flatten(_)
Flatten(chunks) ==
    IF chunks = <<>> THEN <<>> ELSE Head(chunks) \o Flatten(Tail(chunks))

StreamText(chunks) == BufferToString(Flatten(chunks))

\* C5: when the first terminal event is 'close' with a non-zero code, the
\* failure message carries that code and, verbatim and in arrival order, all
\* the stderr text the process had sent before the close.
C5_StderrVerbatim ==
    \A u \in Uploads :
        (upc[u] = "done" /\ IsFailedClose(firstEvent[u])) =>
            /\ envelope[u].success = FALSE
            /\ envelope[u].error.code = firstEvent[u].code
            /\ envelope[u].error.stderr = StreamText(firstEvent[u].before)

\* C6: every upload that was started eventually settles, given only that a
\* pending watchdog eventually fires.
C6_EventuallySettles ==
    \A u \in Uploads : (upc[u] = "pending") ~> (promise[u].state # "pending")

\* C6 witness: an upload settled by its watchdog with no 'error' and no
\* 'close' ever delivered.
C6_Witness ==
    /\ promise[1] = Rejected(UploadTimeoutError)
    /\ eventsLeft = MaxEvents

(***************************************************************************)
(* Claims about the operation facade.                                      *)
(***************************************************************************)

\* A result envelope: {success: true[, data]} or {success: false, error: text}.
IsEnvelope(e) ==
    /\ "success" \in DOMAIN e
    /\ IF e.success
       THEN DOMAIN e \in {{"success"}, {"success", "data"}}
       ELSE DOMAIN e = {"success", "error"} /\ "text" \in DOMAIN e.error

\* C7: each of the six operations, whatever its input and the outcomes of its
\* remote commands, completes by returning one envelope, success or
\* {success:false, error}, and never by a throw; before it completes it has
\* returned nothing.
C7_AlwaysOneEnvelope ==
    /\ opc = "done" => (result.how = "return" /\ IsEnvelope(result.value))
    /\ opc # "done" => result = [how |-> "none"]
    /\ \A u \in Uploads :
          /\ upc[u] = "done" => IsEnvelope(envelope[u])
          /\ upc[u] # "done" => envelope[u] = NoEnvelope

\* C7 witness: statPath completed after its command produced too much output.
C7_Witness ==
    /\ opc = "done"
    /\ op.name = "statPath"
    /\ result.how = "return"
    /\ result.value = [success |-> FALSE,
                       error |-> [text |-> "stdout maxBuffer length exceeded"]]

\* The completed remote command i of the operation failed.
FailedAt(i) == ~log[i].outcome.ok

\* The operation returned the failure envelope of the remote command i.
SurfacedAt(i) ==
    /\ i = Len(log)
    /\ opc = "done"
    /\ result.how = "return"
    /\ result.value = [success |-> FALSE, error |-> log[i].outcome.error.message]

\* C8 (as claimed): once a remote command of an operation has failed, the
\* operation issues no further remote command and returns that failure.
C8_SingleAttempt == \A i \in 1..Len(log) : FailedAt(i) => SurfacedAt(i)

\* C8 (amended): no step of an operation is attempted twice, and a failed
\* remote command ends the operation with its failure envelope, except that
\* a failed detailed listing is followed by the simplified listing and a
\* failed 512-byte sample by the content fetch.
C8_NoRetryBeyondFallbacks ==
    /\ \A i, j \in 1..Len(log) : log[i].label = log[j].label => i = j
    /\ \A i \in 1..Len(log) : pending.label # log[i].label
    /\ \A i \in 1..Len(log) :
          FailedAt(i) =>
              CASE log[i].label = "detailed" ->
                     IF i = Len(log) THEN pending.label = "fallback"
                     ELSE i = 1 /\ log[2].label = "fallback" /\ Len(log) = 2
                [] log[i].label = "sample" ->
                     IF i = Len(log) THEN pending.label = "content"
                     ELSE log[i + 1].label = "content" /\ Len(log) = i + 1
                [] OTHER -> SurfacedAt(i)

\* C8 witness: readFile whose sample failed and whose content fetch then
\* failed has returned the failure of the content fetch.
C8_Witness ==
    /\ Len(log) = 3
    /\ log[2].label = "sample" /\ FailedAt(2)
    /\ log[3].label = "content" /\ FailedAt(3)
    /\ SurfacedAt(3)

\* The lines of an output of `ls -1ap` that name an entry: every line, less
\* one trailing carriage return, other than "", "./" and "../".
NamesAnEntry(line) == line \notin {<<>>, <<".", "/">>, <<".", ".", "/">>}

EntryLines(stdout) ==
    SelectSeq([i \in 1..Len(Split(stdout, "\n")) |-> StripCR(Split(stdout, "\n")[i])],
              NamesAnEntry)

\* The directory listDir lists: the input, with "/" appended unless it ends
\* in "/".
ListedDir ==
    IF op.dirPath # <<>> /\ op.dirPath[Len(op.dirPath)] = "/" THEN op.dirPath
    ELSE op.dirPath \o <<"/">>

\* C9: listDir issues `ls -1ap` exactly when `ls -la --color=never` failed.
\* When the simplified listing then succeeds, listDir returns success with one
\* entry per line other than "./" and "../", in order, carrying only name,
\* path and isDirectory: isDirectory is whether the line ends in "/" and the
\* name is the line without that "/". When it fails too, listDir returns the
\* failure envelope of the simplified listing.
C9_FallbackListing ==
    op.name = "listDir" =>
        LET fallbackIssued == pending.label = "fallback"
                                \/ \E i \in 1..Len(log) : log[i].label = "fallback"
            detailedFailed == Len(log) >= 1 /\ log[1].label = "detailed" /\ FailedAt(1)
        IN /\ fallbackIssued <=> detailedFailed
           /\ fallbackIssued =>
                 /\ (IF Len(log) = 2 THEN log[2].cmd ELSE pending.cmd)
                        = [tool |-> "ls", flags |-> <<"-1ap">>, count |-> <<>>,
                           path |-> ListedDir]
                 /\ log[1].cmd = [tool |-> "ls", flags |-> <<"-la", "--color=never">>,
                                  count |-> <<>>, path |-> ListedDir]
           /\ (Len(log) = 2 /\ FailedAt(2)) => SurfacedAt(2)
           /\ (Len(log) = 2 /\ ~FailedAt(2)) =>
                 LET lines == EntryLines(log[2].outcome.stdout)
                     entries == result.value.data
                 IN /\ opc = "done"
                    /\ result.how = "return"
                    /\ result.value.success
                    /\ Len(entries) = Len(lines)
                    /\ \A i \in 1..Len(lines) :
                          /\ DOMAIN entries[i] = {"name", "path", "isDirectory"}
                          /\ entries[i].isDirectory = (lines[i][Len(lines[i])] = "/")
                          /\ lines[i] = entries[i].name
                                \o (IF entries[i].isDirectory THEN <<"/">> ELSE <<>>)
                          /\ entries[i].path = ListedDir \o entries[i].name

\* C9 witness: the detailed listing failed and the simplified listing of a
\* directory given without a trailing "/" returned a directory and a file.
C9_Witness ==
    /\ op.name = "listDir"
    /\ op.dirPath = <<"/", "e", "t", "c">>
    /\ opc = "done"
    /\ Len(log) = 2
    /\ FailedAt(1)
    /\ result.value.success
    /\ Len(result.value.data) = 2
    /\ result.value.data[1].isDirectory
    /\ ~result.value.data[2].isDirectory

\* C10: in every successful listDir result, detailed or simplified, every
\* entry's path is the listed directory followed by the entry's name, and no
\* entry is named "." or "..".
C10_PathIsDirPlusName ==
    (op.name = "listDir" /\ opc = "done" /\ result.value.success) =>
        \A i \in 1..Len(result.value.data) :
            LET entry == result.value.data[i]
            IN /\ entry.path = ListedDir \o entry.name
               /\ entry.name # <<".">>
               /\ entry.name # <<".", ".">>

(***************************************************************************)
(* Claims about readFile.                                                  *)
(***************************************************************************)
\* readFile has returned a success envelope.
ReadSucceeded ==
    /\ op.name = "readFile"
    /\ opc = "done"
    /\ result.how = "return"
    /\ result.value.success

\* The size the probe `stat -c %s` reported: the number its output starts
\* with, if any.
ProbedSize == ParseInt(Trim(log[1].outcome.stdout))

\* The configured cap: maxSize, or 1 MiB when maxSize is omitted.
Cap == IF op.maxSize = <<>> THEN 1024 * 1024 ELSE op.maxSize[1]

\* The probed size exceeded the cap.
ExceedsCap == ProbedSize # <<>> /\ ProbedSize[1] > Cap

\* The path ends, in any letter case, in "." and a known binary extension.
HasKnownBinaryExtension(path) ==
    \E ext \in KNOWN_BINARY_EXTENSIONS :
        LET lower == ToLowerCase(path)
            suffix == <<".">> \o ext
        IN /\ Len(lower) >= Len(suffix)
           /\ SubSeq(lower, Len(lower) - Len(suffix) + 1, Len(lower)) = suffix

\* The commands readFile has issued so far, completed or awaited.
Issued ==
    [i \in 1..(Len(log) + (IF opc = "await" THEN 1 ELSE 0)) |->
        IF i <= Len(log) THEN log[i].cmd ELSE pending.cmd]

\* C11 (as claimed): in every successful readFile result, truncated is true
\* exactly when the probed size exceeded the cap.
C11_TruncatedIffOverCap ==
    ReadSucceeded => (result.value.data.truncated <=> ExceedsCap)

\* C11 (amended): in every successful readFile result, truncated is true
\* exactly when the result is not binary and the probed size exceeded the
\* cap; a binary result is never truncated.
C11_TruncatedIffTextOverCap ==
    ReadSucceeded =>
        (result.value.data.truncated
            <=> (~result.value.data.isBinary /\ ExceedsCap))

\* C11 witness: a text file of 2000000 bytes read with the default cap came
\* back truncated.
C11_Witness ==
    /\ ReadSucceeded
    /\ op.maxSize = <<>>
    /\ log[1].outcome.stdout = <<"2", "0", "0", "0", "0", "0", "0", "\n">>
    /\ result.value.data.truncated
    /\ ~result.value.data.isBinary

\* C12: in every successful readFile result size is the probed size, and the
\* content command readFile issues is `head -c <cap> <path>` when the probed
\* size exceeds the cap and `cat <path>` otherwise.
C12_SizeIsProbedSize ==
    /\ ReadSucceeded => result.value.data.size = ProbedSize
    /\ op.name = "readFile" =>
          \A i \in 1..Len(Issued) :
              i = 3 =>
                  Issued[i] = IF ExceedsCap
                              THEN [tool |-> "head", flags |-> <<"-c">>,
                                    count |-> <<Cap>>, path |-> op.filePath]
                              ELSE [tool |-> "cat", flags |-> <<>>, count |-> <<>>,
                                    path |-> op.filePath]

\* C12 witness: a file of 7 bytes read with a cap of 4 came back with size 7
\* and the 4 characters of the head slice.
C12_Witness ==
    /\ ReadSucceeded
    /\ op.maxSize = <<4>>
    /\ result.value.data.size = <<7>>
    /\ Len(result.value.data.content) = 4
    /\ log[3].cmd.tool = "head"

\* The sample was fetched and holds a null byte.
SampleHasNul ==
    /\ Len(log) >= 2
    /\ log[2].label = "sample"
    /\ log[2].outcome.ok
    /\ \E i \in 1..Len(log[2].outcome.stdout) : log[2].outcome.stdout[i] = NUL

\* C13: a successful binary result has empty content and truncated false,
\* and a successful result is binary exactly when the path has a known
\* binary extension or the sample was fetched and holds a null byte.
C13_BinaryResult ==
    ReadSucceeded =>
        /\ result.value.data.isBinary =>
              /\ result.value.data.content = <<>>
              /\ ~result.value.data.truncated
        /\ result.value.data.isBinary
              <=> (HasKnownBinaryExtension(op.filePath) \/ SampleHasNul)

\* C13 witness: a file without a known extension, larger than the cap, whose
\* sample holds a null byte, came back binary.
C13_Witness ==
    /\ ReadSucceeded
    /\ ~HasKnownBinaryExtension(op.filePath)
    /\ SampleHasNul
    /\ ExceedsCap
    /\ result.value.data.isBinary

\* readFile has issued no `head` and no `cat`.
NoContentCommand == \A i \in 1..Len(Issued) : Issued[i].tool \notin {"head", "cat"}

\* C14 (as claimed): readFile on a path with a known binary extension never
\* issues `head` or `cat` and always returns isBinary = true with empty
\* content.
C14_KnownBinaryAlwaysBinary ==
    (op.name = "readFile" /\ HasKnownBinaryExtension(op.filePath)) =>
        /\ NoContentCommand
        /\ opc = "done" =>
              /\ ReadSucceeded
              /\ result.value.data.isBinary
              /\ result.value.data.content = <<>>

\* C14 (amended): readFile on a path with a known binary extension never
\* issues `head` or `cat`; when its size probe succeeds it returns
\* isBinary = true with empty content, and when the size probe fails it
\* returns the failure envelope of the size probe.
C14_KnownBinaryNeverSampled ==
    (op.name = "readFile" /\ HasKnownBinaryExtension(op.filePath)) =>
        /\ NoContentCommand
        /\ opc = "done" =>
              /\ Len(log) = 1
              /\ IF FailedAt(1) THEN SurfacedAt(1)
                 ELSE /\ ReadSucceeded
                      /\ result.value.data.isBinary
                      /\ result.value.data.content = <<>>

\* C14 witness: readFile of "/a.PNG" returned a binary result after the size
\* probe alone.
C14_Witness ==
    /\ ReadSucceeded
    /\ op.filePath = <<"/", "a", ".", "P", "N", "G">>
    /\ Len(log) = 1
    /\ result.value.data.isBinary

\* C15: when the 512-byte sample of readFile fails, readFile goes on to the
\* content fetch; it then returns a non-binary success with the fetched
\* content, or the failure of the content fetch.
C15_SampleFailureIgnored ==
    (op.name = "readFile" /\ Len(log) >= 2 /\ log[2].label = "sample" /\ FailedAt(2)) =>
        /\ Len(Issued) = 3
        /\ Issued[3].tool \in {"head", "cat"}
        /\ Issued[3].count # <<512>>
        /\ opc = "done" =>
              /\ Len(log) = 3
              /\ IF FailedAt(3) THEN SurfacedAt(3)
                 ELSE /\ ReadSucceeded
                      /\ ~result.value.data.isBinary
                      /\ result.value.data.content = log[3].outcome.stdout

\* C15 witness: the sample timed out and readFile returned the file's text.
C15_Witness ==
    /\ ReadSucceeded
    /\ Len(log) = 3
    /\ FailedAt(2)
    /\ log[2].outcome.run.millis > 10000
    /\ result.value.data.content = <<"a", "b">>

(***************************************************************************)
(* Claims about downloadFile, the command gateway and deletePath.          *)
(***************************************************************************)
\* C16: downloadFile of a file of any size whose `cat` runs to exit code 0
\* within the timeout returns a success envelope holding the whole content.
C16_DownloadUnconditional ==
    (op.name = "downloadFile" /\ Len(log) = 1) =>
        LET run == log[1].outcome.run
        IN (run.spawns /\ run.code = 0 /\ run.millis <= 10000) =>
              /\ opc = "done"
              /\ result.how = "return"
              /\ result.value.success
              /\ result.value.data = run.stdout
              /\ run.more = 0

\* The timeout in force for a call: the override if one is given, else 10 s.
TimeoutInForce(options) ==
    IF options # <<>> /\ options[1].timeout # <<>> THEN options[1].timeout[1] ELSE 10000

\* The run of the completed call i stays within the limits of the gateway:
\* the process was spawned, exited with 0, took no longer than the timeout
\* and wrote no more than 2 MB.
CleanRun(i) ==
    LET run == log[i].outcome.run
    IN /\ run.spawns
       /\ run.code = 0
       /\ run.millis <= TimeoutInForce(log[i].options)
       /\ Len(run.stdout) + run.more <= 2 * 1024 * 1024

\* C17: a call of kubectlExec returns the complete standard output when the
\* run stays within the limits, and otherwise fails with one error; a call
\* made on its own ends in that return or throw, and a handler that ends on
\* a failed command returns the envelope of the error message alone.
C17_OutputOrSingleError ==
    \A i \in 1..Len(log) :
        LET outcome == log[i].outcome
        IN /\ outcome.ok <=> CleanRun(i)
           /\ outcome.ok =>
                 /\ outcome.stdout = outcome.run.stdout
                 /\ outcome.run.more = 0
                 /\ "error" \notin DOMAIN outcome
           /\ ~outcome.ok =>
                 /\ "stdout" \notin DOMAIN outcome
                 /\ "text" \in DOMAIN outcome.error.message
           /\ op.name = "kubectlExec" =>
                 /\ opc = "done"
                 /\ result = IF outcome.ok
                             THEN [how |-> "return", value |-> outcome.run.stdout]
                             ELSE [how |-> "throw", error |-> outcome.error]
           /\ (op.name # "kubectlExec" /\ ~outcome.ok /\ opc = "done") =>
                 \/ SurfacedAt(i)
                 \/ i < Len(log) /\ log[i].label \in {"detailed", "sample"}

\* C17 witness: a call with a timeout of 20 s whose run took longer than
\* 10 s returned its output.
C17_Witness ==
    /\ op.name = "kubectlExec"
    /\ opc = "done"
    /\ log[1].options = <<[timeout |-> <<20000>>]>>
    /\ log[1].outcome.run.millis > 10000
    /\ result = [how |-> "return", value |-> <<"a", "b">>]

\* C18: deletePath issues one command, `rm -rf <path>` when isDirectory is
\* true and `rm -f <path>` when it is false, and returns success exactly
\* when that command succeeds.
C18_DeleteOneCommand ==
    op.name = "deletePath" =>
        /\ Len(Issued) = 1
        /\ Issued[1] = [tool |-> "rm",
                        flags |-> IF op.isDirectory THEN <<"-rf">> ELSE <<"-f">>,
                        count |-> <<>>, path |-> op.targetPath]
        /\ opc = "done" =>
              /\ result.how = "return"
              /\ result.value.success <=> log[1].outcome.ok
              /\ FailedAt(1) => SurfacedAt(1)

\* C18 witness: deletePath of a file, not a directory, succeeded.
C18_Witness ==
    /\ op.name = "deletePath"
    /\ ~op.isDirectory
    /\ opc = "done"
    /\ result.value = [success |-> TRUE]
    /\ log[1].cmd.flags = <<"-f">>

(***************************************************************************)
(* Claims about the credential locator.                                    *)
(***************************************************************************)
\* The direct candidate of the lookup: kubeconfig-<clusterId> in the
\* temporary directory.
DirectCandidate == TempDir \o <<"/">> \o KubeconfigPrefix \o lookup.clusterId

\* The direct candidate exists.
DirectCandidateExists ==
    \E i \in 1..Len(lookup.tempDirectory.files) :
        /\ lookup.tempDirectory.files[i].name = KubeconfigPrefix \o lookup.clusterId
        /\ lookup.tempDirectory.files[i].exists

\* C19: a lookup for an empty cluster identifier returns "not found" without
\* any filesystem call, and a lookup whose direct candidate exists returns
\* that candidate without scanning the directory.
C19_NoScanWhenNotNeeded ==
    lpc = "done" =>
        /\ lookup.clusterId = <<>> =>
              /\ located.value = <<>>
              /\ located.accesses = <<>>
        /\ (lookup.clusterId # <<>> /\ DirectCandidateExists) =>
              /\ located.value = <<DirectCandidate>>
              /\ \A i \in 1..Len(located.accesses) :
                    located.accesses[i].call # "readdirSync"

\* C19 witness: the direct candidate of cluster "a" was returned although the
\* directory lists the file of cluster "ab" before it.
C19_Witness ==
    /\ lpc = "done"
    /\ lookup.clusterId = <<"a">>
    /\ Len(lookup.tempDirectory.files) = 2
    /\ lookup.tempDirectory.files[1] = [name |-> KubeconfigPrefix \o <<"a", "b">>, exists |-> TRUE]
    /\ located.value = <<DirectCandidate>>
    /\ Len(located.accesses) = 1

\* C20: a lookup for a cluster identifier never returns the credential file
\* of another cluster, whatever the temporary directory holds.
C20_NeverAnothersFile ==
    (lpc = "done" /\ located.value # <<>>) =>
        \A other \in ClusterIds \ {<<>>, lookup.clusterId} :
            located.value[1] # TempDir \o <<"/">> \o KubeconfigPrefix \o other

(***************************************************************************)
(* Claims about upload failures, statPath and the listing parser.          *)
(***************************************************************************)
\* C23: a failed upload reports the timeout text exactly when the watchdog
\* settled it, the exit text with the exit code exactly when a 'close' with
\* a code other than 0 settled it, and the error of the spawn otherwise; the
\* three are pairwise different.
C23_FailuresDistinguishable ==
    \A u \in Uploads :
        (upc[u] = "done" /\ ~envelope[u].success) =>
            LET error == envelope[u].error
                ev == firstEvent[u]
            IN /\ ev.kind = "timeout" <=> error.text = "Upload timed out after 30 seconds"
               /\ ev.kind = "close"
                     <=> error.text = "Upload failed (exit ${code}): ${stderr}"
               /\ ev.kind = "close" => (error.code = ev.code /\ ev.code # <<0>>)
               /\ ev.kind = "error" => error.text = ev.error
               /\ ev.kind = "none" => error.text = "ERR_INVALID_ARG_VALUE"

\* C23 witness: an upload failed on a 'close' with exit code 1 that arrived
\* before the watchdog ran.
C23_Witness ==
    /\ upc[1] = "done"
    /\ firstEvent[1].kind = "close"
    /\ envelope[1].success = FALSE
    /\ envelope[1].error.code = <<1>>
    /\ timerRuns[1] = 0

\* The text holds the word.
Contains(text, word) ==
    \E i \in 1..(Len(text) - Len(word) + 1) : SubSeq(text, i, i + Len(word) - 1) = word

\* C24: statPath issues one command, `stat -c "%F|%s|%a|%y" <path>`. When it
\* succeeds the result's type is directory when the first field of the output
\* holds "directory", else file when it holds "regular", else symlink when
\* it holds "symbolic", else other; size is the number read from the second
\* field, permissions the third field and modified the fourth.
C24_StatMapping ==
    op.name = "statPath" =>
        /\ Len(Issued) = 1
        /\ Issued[1] = [tool |-> "stat", flags |-> <<"-c", "%F|%s|%a|%y">>,
                        count |-> <<>>, path |-> op.targetPath]
        /\ (opc = "done" /\ FailedAt(1)) => SurfacedAt(1)
        /\ (opc = "done" /\ ~FailedAt(1)) =>
              LET fields == Split(Trim(log[1].outcome.stdout), "|")
                  data == result.value.data
              IN /\ result.how = "return"
                 /\ result.value.success
                 /\ data.type =
                       IF Contains(fields[1], <<"d", "i", "r", "e", "c", "t", "o", "r", "y">>)
                       THEN "directory"
                       ELSE IF Contains(fields[1], <<"r", "e", "g", "u", "l", "a", "r">>)
                       THEN "file"
                       ELSE IF Contains(fields[1], <<"s", "y", "m", "b", "o", "l", "i", "c">>)
                       THEN "symlink"
                       ELSE "other"
                 /\ Len(fields) >= 4 =>
                       /\ data.size = ParseInt(fields[2])
                       /\ data.permissions = <<fields[3]>>
                       /\ data.modified = <<fields[4]>>

\* C24 witness: statPath of a symbolic link of 6 bytes with mode 777.
C24_Witness ==
    /\ op.name = "statPath"
    /\ opc = "done"
    /\ result.value.success
    /\ result.value.data = [type |-> "symlink", size |-> <<6>>,
                            permissions |-> <<<<"7", "7", "7">>>>,
                            modified |-> <<<<"2", "0", "2", "4">>>>]

\* The words of a line: the positions where a run of non-space characters
\* starts, and the k-th such run.
WordStarts(line) ==
    {i \in 1..Len(line) :
        line[i] \notin SpaceChars /\ (i = 1 \/ line[i - 1] \in SpaceChars)}

WordStart(line, k) ==
    CHOOSE i \in WordStarts(line) : Cardinality({j \in WordStarts(line) : j < i}) = k - 1

Word(line, k) ==
    LET i == WordStart(line, k)
        j == CHOOSE j \in i..Len(line) :
                 /\ \A n \in i..j : line[n] \notin SpaceChars
                 /\ j = Len(line) \/ line[j + 1] \in SpaceChars
    IN SubSeq(line, i, j)

\* The fixed-field shape of a long-format line: a permission word of 10 or
\* 11 characters, a link count, owner, group, a size, a month word, a day
\* and a time or year, then a name.
HasShape(line) ==
    LET Within(k, chars) == \A i \in 1..Len(Word(line, k)) : Word(line, k)[i] \in chars
    IN /\ 1 \in WordStarts(line)
       /\ Cardinality(WordStarts(line)) >= 9
       /\ Len(Word(line, 1)) \in {10, 11}
       /\ Within(2, Digits)
       /\ Within(5, Digits)
       /\ Within(6, Digits \cup Letters \cup {"_"})
       /\ Within(7, Digits)
       /\ Within(8, Digits \cup {":"})

\* The lines of the detailed listing that listDir parsed, without line ends.
DetailedListingLines ==
    [i \in 1..Len(Split(log[1].outcome.stdout, "\n")) |->
        StripCR(Split(log[1].outcome.stdout, "\n")[i])]

\* listDir has parsed the output of a successful detailed listing.
DetailedListed ==
    /\ op.name = "listDir"
    /\ opc = "done"
    /\ Len(log) = 1
    /\ ~FailedAt(1)

\* The entry was made from the line: the line has the shape, the entry has
\* its permission word, and its name field is the entry's name, followed by
\* " -> " and the target when the entry has one.
MadeFrom(entry, line) ==
    /\ line # <<>>
    /\ SubSeq(line, 1, 6) # <<"t", "o", "t", "a", "l", " ">>
    /\ HasShape(line)
    /\ entry.permissions = Word(line, 1)
    /\ SubSeq(line, WordStart(line, 9), Len(line))
          = entry.name \o (IF entry.symlinkTarget = <<>> THEN <<>>
                           ELSE <<" ", "-", ">", " ">> \o entry.symlinkTarget[1])

\* C25: parsing a detailed listing always gives a success result whose
\* entries come, in order and at most one per line, from lines that are not
\* blank, do not start with "total " and have the fixed-field shape.
C25_UnparsedLinesSkipped ==
    DetailedListed =>
        /\ result.how = "return"
        /\ result.value.success
        /\ LET entries == result.value.data
               lines == DetailedListingLines
           IN \E f \in [1..Len(entries) -> 1..Len(lines)] :
                 /\ \A i, j \in 1..Len(entries) : i < j => f[i] < f[j]
                 /\ \A i \in 1..Len(entries) : MadeFrom(entries[i], lines[f[i]])

\* C25 witness: a listing of a "total" line and an unreadable entry gave no
\* entry.
C25_Witness ==
    /\ DetailedListed
    /\ DetailedListingLines[1] = <<"t", "o", "t", "a", "l", " ", "8">>
    /\ Len(DetailedListingLines) = 3
    /\ DetailedListingLines[2][2] = "?"
    /\ result.value = [success |-> TRUE, data |-> <<>>]

\* The name field of a line that has the shape.
NameOf(line) == SubSeq(line, WordStart(line, 9), Len(line))

\* C26: an entry made from a line whose type character is "l" and whose name
\* field holds " -> " has the text before the first " -> " as its name and
\* the text after it as its symlinkTarget; an entry made from any other line
\* has the whole name field as its name and no symlinkTarget.
C26_SymlinkSplit ==
    DetailedListed =>
        LET entries == result.value.data
            lines == DetailedListingLines
        IN \E f \in [1..Len(entries) -> 1..Len(lines)] :
              /\ \A i, j \in 1..Len(entries) : i < j => f[i] < f[j]
              /\ \A i \in 1..Len(entries) :
                    LET line == lines[f[i]]
                        entry == entries[i]
                    IN /\ MadeFrom(entry, line)
                       /\ entry.isSymlink = (line[1] = "l")
                       /\ IF line[1] = "l" /\ Contains(NameOf(line), <<" ", "-", ">", " ">>)
                          THEN /\ entry.symlinkTarget # <<>>
                               /\ ~Contains(entry.name, <<" ", "-", ">", " ">>)
                          ELSE /\ entry.symlinkTarget = <<>>
                               /\ entry.name = NameOf(line)

\* C26 witness: "link -> target" was split and the regular file "a -> b"
\* was not.
C26_Witness ==
    /\ DetailedListed
    /\ Len(result.value.data) = 2
    /\ result.value.data[1].name = <<"l", "i", "n", "k">>
    /\ result.value.data[1].isSymlink
    /\ result.value.data[1].symlinkTarget = << <<"t", "a", "r", "g", "e", "t">> >>
    /\ result.value.data[2].name = <<"a", " ", "-", ">", " ", "b">>
    /\ ~result.value.data[2].isSymlink
    /\ result.value.data[2].symlinkTarget = <<>>

\* The kind of an entry, for an entry with the fields named.
KindIsConsistent(entry, permissions, isSymlink, symlinkTarget) ==
    /\ ~(entry.isDirectory /\ isSymlink)
    /\ entry.isDirectory <=> (permissions # <<>> /\ permissions[1] = "d")
    /\ isSymlink <=> (permissions # <<>> /\ permissions[1] = "l")
    /\ symlinkTarget # <<>> => isSymlink

\* listDir has returned entries.
Listed == op.name = "listDir" /\ opc = "done" /\ result.value.success

\* C27 (as claimed): every entry listDir returns, from either listing, is a
\* directory exactly when its permission string starts with "d" and a
\* symlink exactly when it starts with "l", never both, and has a
\* symlinkTarget only when it is a symlink.
C27_ExactlyOneKind ==
    Listed =>
        \A i \in 1..Len(result.value.data) :
            LET entry == result.value.data[i]
            IN KindIsConsistent(
                   entry,
                   IF "permissions" \in DOMAIN entry THEN entry.permissions ELSE <<>>,
                   "isSymlink" \in DOMAIN entry /\ entry.isSymlink,
                   IF "symlinkTarget" \in DOMAIN entry THEN entry.symlinkTarget ELSE <<>>)

\* C27 (amended): every entry of a detailed listing is a directory exactly
\* when its permission string starts with "d" and a symlink exactly when it
\* starts with "l", never both, and has a symlinkTarget only when it is a
\* symlink; an entry of the simplified listing has a name, a path and
\* isDirectory, and neither permissions nor isSymlink nor symlinkTarget.
C27_OneKindPerListing ==
    Listed =>
        \A i \in 1..Len(result.value.data) :
            LET entry == result.value.data[i]
            IN IF Len(log) = 1
               THEN KindIsConsistent(entry, entry.permissions, entry.isSymlink,
                                     entry.symlinkTarget)
               ELSE DOMAIN entry = {"name", "path", "isDirectory"}

\* C27 witness: a detailed listing returned a directory and a symlink with a
\* target.
C27_Witness ==
    /\ DetailedListed
    /\ Len(result.value.data) = 2
    /\ result.value.data[1].isDirectory
    /\ ~result.value.data[1].isSymlink
    /\ result.value.data[2].isSymlink
    /\ ~result.value.data[2].isDirectory
    /\ result.value.data[2].symlinkTarget # <<>>

(***************************************************************************)
(* Claims about the child-process environment.                             *)
(***************************************************************************)

\* The child processes started so far, each with the cluster it was started
\* for: those of the one-shot commands, awaited or completed, and those of
\* the uploads.
Started ==
    {[clusterId |-> op.clusterId, args |-> log[i].args, env |-> log[i].env] :
        i \in 1..Len(log)}
      \cup (IF opc = "await"
            THEN {[clusterId |-> op.clusterId, args |-> pending.args, env |-> pending.env]}
            ELSE {})

\* The file named kubeconfig-<id> or, failing that, a file of the temporary
\* directory that can be enumerated, starts with kubeconfig- and includes
\* the id; nothing for an empty id.
CredentialFor(id) ==
    IF id = <<>> THEN {}
    ELSE LET files == host.tempDirectory.files
             direct == {i \in 1..Len(files) :
                           files[i].exists /\ files[i].name = KubeconfigPrefix \o id}
             listed == {i \in 1..Len(files) :
                           /\ host.tempDirectory.readable
                           /\ files[i].exists
                           /\ StartsWith(files[i].name, KubeconfigPrefix)
                           /\ Includes(files[i].name, id)}
         IN IF direct # {} THEN {TempDir \o <<"/">> \o files[i].name : i \in direct}
            ELSE {TempDir \o <<"/">> \o files[i].name : i \in listed}

\* The temporary directory cannot be enumerated and holds no credential file
\* under the direct name of the cluster.
EnumerationFails(id) ==
    /\ id # <<>>
    /\ ~host.tempDirectory.readable
    /\ \A i \in 1..Len(host.tempDirectory.files) :
           host.tempDirectory.files[i].name # KubeconfigPrefix \o id

\* C21: a failure while enumerating the temporary directory is swallowed and
\* counts as "not found": the operation is not aborted, its command runs
\* with neither the --kubeconfig flag nor a KUBECONFIG override, and the
\* operation completes as the run of its command decides.
C21_EnumerationFailureSwallowed ==
    (opc # "idle" /\ EnumerationFails(op.clusterId)) =>
        /\ Started # {}
        /\ \A child \in Started :
               child.args.kubeconfig = <<>> /\ child.env = ProcessEnv
        /\ opc = "done" => /\ Len(log) >= 1
                           /\ result.how = "return"
                           /\ (\A i \in 1..Len(log) : log[i].outcome.ok)
                                  => result.value.success

C21_Witness ==
    /\ opc = "done"
    /\ EnumerationFails(op.clusterId)
    /\ op.name = "statPath"
    /\ result.how = "return"
    /\ result.value.success
    /\ log[1].args.kubeconfig = <<>>

\* The child processes of both channels.
Spawned ==
    Started \cup {[clusterId |-> spawned[u].clusterId, args |-> spawned[u].args,
                   env |-> spawned[u].env] :
                     u \in {v \in Uploads : spawned[v] # NoInvocation}}

\* C22: the environment of every child process is the process environment,
\* with KUBECONFIG overridden exactly when a credential file is found; the
\* --kubeconfig flag is given under the same condition and names the same
\* file; the process environment itself is never changed. This holds for
\* the one-shot commands and for the streaming upload alike.
C22_EnvAndFlag ==
    /\ host.env = ProcessEnv
    /\ \A child \in Spawned :
           LET found == CredentialFor(child.clusterId)
           IN IF found = {}
              THEN child.env = ProcessEnv /\ child.args.kubeconfig = <<>>
              ELSE /\ child.args.kubeconfig # <<>>
                   /\ child.args.kubeconfig[1] \in found
                   /\ child.env.KUBECONFIG = child.args.kubeconfig[1]
                   /\ child.env.PATH = ProcessEnv.PATH
                   /\ DOMAIN child.env = DOMAIN ProcessEnv

C22_Witness ==
    /\ upc[1] = "done"
    /\ spawned[1] # NoInvocation
    /\ spawned[1].args.kubeconfig # <<>>
    /\ spawned[1].args.stdin
    /\ spawned[1].env.KUBECONFIG # ProcessEnv.KUBECONFIG

(***************************************************************************)
(* Claims about concurrent operations.                                     *)
(***************************************************************************)

\* The text an upload's own process has sent: its chunks, each decoded on
\* arrival, in order.
RECURSIVE OwnText(_)
OwnText(chunks) ==
    IF chunks = <<>> THEN <<>>
    ELSE BufferToString(Head(chunks)) \o OwnText(Tail(chunks))

\* The envelope an upload returns, told from its own events alone.
OwnEnvelope(u) ==
    LET ev == firstEvent[u]
    IN CASE ev.kind = "none" ->
                [success |-> FALSE, error |-> [text |-> "ERR_INVALID_ARG_VALUE"]]
         [] ev.kind = "timeout" ->
                [success |-> FALSE, error |-> [text |-> "Upload timed out after 30 seconds"]]
         [] ev.kind = "error" -> [success |-> FALSE, error |-> [text |-> ev.error]]
         [] ev.kind = "close" /\ ev.code = <<0>> -> [success |-> TRUE]
         [] OTHER ->
                [success |-> FALSE,
                 error |-> [text |-> "Upload failed (exit ${code}): ${stderr}",
                            code |-> ev.code, stderr |-> OwnText(ev.before)]]

\* C28: uploads in flight at once do not interfere. Each upload is settled
\* by its own first terminal event and by nothing else, its watchdog is
\* cancelled or run only once an event of its own has arrived, its stderr
\* buffer holds the text of its own process only, and the envelope it
\* returns is the one its own events decide.
C28_NoInterference ==
    \A u \in Uploads :
        /\ settled[u] <=> firstEvent[u] # NoEvent
        /\ timer[u] \in {"cleared", "fired"} <=> firstEvent[u] # NoEvent
        /\ firstEvent[u] # NoEvent <=> (timerRuns[u] + closes[u] > 0
                                           \/ firstEvent[u].kind = "error")
        /\ stderr[u] = OwnText(received[u])
        /\ upc[u] = "done" => envelope[u] = OwnEnvelope(u)
        /\ upc[u] # "done" => envelope[u] = NoEnvelope

\* C28 witness: upload 1 failed on a 'close' after its process had sent
\* text, while upload 2, whose process has sent other text, is still in
\* flight with its watchdog pending.
C28_Witness ==
    /\ upc[1] = "done"
    /\ IsFailedClose(firstEvent[1])
    /\ received[1] # <<>>
    /\ upc[2] = "pending"
    /\ received[2] # <<>>
    /\ received[2] # received[1]
    /\ timer[2] = "pending"
    /\ ~settled[2]

(***************************************************************************)
(* Claims about the file list of the renderer.                             *)
(***************************************************************************)

\* The requests in flight on a channel.
InFlight(channel) == {i \in 1..Len(inflight) : inflight[i].channel = channel}

\* The uploads in flight, being read or sent, of the mounted file list.
OwnUploads ==
    {i \in InFlight("readFileAsBase64") \cup InFlight("uploadFile") :
        inflight[i].tree = tree.id}

\* C29: a local file larger than 1 MiB (1,048,576 bytes), chosen with the
\* Upload button or dropped on the file list, is never sent: no file being
\* read or uploaded is larger, and the uploading flag is set only while a
\* file that is not too large is being read or uploaded; so a too-large file
\* sets no flag and issues no request, whatever else is in the same drop.
C29_LargeFileNeverSent ==
    /\ \A i \in InFlight("readFileAsBase64") \cup InFlight("uploadFile") :
           /\ inflight[i].args.size <= 1048576
           /\ \E file \in offered : /\ file.name = inflight[i].args.name
                                    /\ file.size = inflight[i].args.size
    /\ tree # NoTree =>
           /\ tree.uploading => OwnUploads # {}
           /\ (\A file \in offered : file.size > 1048576) => ~tree.uploading

\* C29 witness: a too-large file and a file of exactly 1 MiB were offered,
\* the too-large one was refused and the other one is being uploaded.
C29_Witness ==
    /\ \E file \in offered : file.size = 1048577
    /\ \E i \in InFlight("uploadFile") : inflight[i].args.size = 1048576
    /\ notice = [kind |-> "error",
                 text |-> "File too large. Maximum upload size is 1 MB."]
    /\ tree # NoTree
    /\ tree.uploading

\* The deletePath request i is the one the confirm dialog on screen stands
\* for: the dialog holds the entry of the request and its buttons are
\* disabled.
Confirmed(i) ==
    /\ tree # NoTree
    /\ tree.confirmDelete # Null
    /\ tree.confirmDelete[1].path = inflight[i].args.path
    /\ tree.confirmDelete[1].isDirectory = inflight[i].args.isDirectory
    /\ tree.deleting

\* C30 as stated: a deletePath request is in flight only for the entry the
\* confirm dialog holds, at most one is in flight at a time, and the dialog
\* stays, disabled, for as long as the request is in flight.
C30_OneConfirmedDelete ==
    /\ Cardinality(InFlight("deletePath")) <= 1
    /\ \A i \in InFlight("deletePath") : Confirmed(i)

\* C30, amended: the same of each mounted file list and of the requests it
\* issued itself. The mounted list has at most one deletePath request in
\* flight; while it has one its dialog holds the entry of the request and is
\* disabled; and its dialog is disabled only while it has one.
C30_OneConfirmedDeletePerList ==
    LET own == {i \in InFlight("deletePath") : inflight[i].tree = tree.id}
    IN /\ Cardinality(own) <= 1
       /\ \A i \in own : Confirmed(i)
       /\ tree # NoTree => (tree.deleting <=> own # {})
       /\ \A i \in InFlight("deletePath") :
              \E answer \in ListDirResults(<<"/">>) :
                  /\ answer.success
                  /\ \E k \in 1..Len(answer.data) :
                         /\ answer.data[k].path = inflight[i].args.path
                         /\ answer.data[k].isDirectory = inflight[i].args.isDirectory

\* C30 witness: a delete confirmed from the context menu is in flight, its
\* dialog still on screen.
C30_Witness ==
    /\ \E i \in InFlight("deletePath") : Confirmed(i) /\ inflight[i].args.isDirectory
    /\ Len(inflight) >= 2

(***************************************************************************)
(* The renderer: PodFsDetails, the panel in the details of a pod. It       *)
(* renders a FileTree while browsing and a FileViewer while a file is      *)
(* selected; `issued` holds the requests the last step made them issue.    *)
(***************************************************************************)
\* activeContainer = selectedContainer || containers[0] || "", for pods with
\* the containers c1 and c2
activeContainer(st) == IF st.selectedContainer # "" THEN st.selectedContainer ELSE "c1"

\* The host renders the panel with another pod. FileTree and FileViewer are
\* rendered with the new pod and the state PodFsDetails still has; their
\* loadDirectory and loadFile are new, so their effects call them; then the
\* effect of PodFsDetails runs: setBrowsing(false); setSelectedFile(null);
\* setSelectedContainer(""); setCurrentPath("/").
PodChanges(p) ==
    LET target == <<p, activeContainer(panel)>>
    IN /\ p # panel.pod
       /\ issued' =
              {[channel |-> "listDir", target |-> target,
                path |-> panel.currentPath, chosenFor |-> panel.pathFor] :
                   b \in {panel.browsing} \ {FALSE}}
              \cup
              {[channel |-> "readFile", target |-> target,
                path |-> panel.selectedFile[1], chosenFor |-> panel.fileFor] :
                   b \in {panel.browsing /\ panel.selectedFile # Null} \ {FALSE}}
       /\ panel' = InitialPanel(p)
       /\ UNCHANGED notDetails

\* The container <select>: onChange. Before browsing it is
\* setSelectedContainer(value); while browsing it is also
\* setSelectedFile(null) and setCurrentPath("/"), the FileTree stays mounted
\* and the effect of its new loadDirectory lists "/" in the new container.
SelectContainer(c) ==
    /\ c # activeContainer(panel)
    /\ panel' = IF panel.browsing
                THEN [panel EXCEPT !.selectedContainer = c, !.selectedFile = Null,
                                   !.currentPath = <<"/">>,
                                   !.pathFor = <<panel.pod, c>>]
                ELSE [panel EXCEPT !.selectedContainer = c]
    /\ issued' = {[channel |-> "listDir", target |-> <<panel.pod, c>>,
                   path |-> <<"/">>, chosenFor |-> <<panel.pod, c>>] :
                       b \in {panel.browsing} \ {FALSE}}
    /\ UNCHANGED notDetails

NextDetails ==
    LET target == <<panel.pod, activeContainer(panel)>>
    IN \/ \E p \in {"p1", "p2"} : PodChanges(p)
       \/ \E c \in {"c1", "c2"} : SelectContainer(c)
       \* "Browse Files": setBrowsing(true); the FileTree is mounted and
       \* lists currentPath
       \/ /\ ~panel.browsing
          /\ panel' = [panel EXCEPT !.browsing = TRUE]
          /\ issued' = {[channel |-> "listDir", target |-> target,
                         path |-> panel.currentPath, chosenFor |-> panel.pathFor]}
          /\ UNCHANGED notDetails
       \* onNavigate(path) of the FileTree: setCurrentPath(path)
       \/ \E path \in {<<"/">>, <<"/", "c", "/">>} :
              /\ panel.browsing
              /\ path # panel.currentPath
              /\ panel' = [panel EXCEPT !.currentPath = path, !.pathFor = target]
              /\ issued' = {[channel |-> "listDir", target |-> target,
                             path |-> path, chosenFor |-> target]}
              /\ UNCHANGED notDetails
       \* onFileSelect(path) of the FileTree: setSelectedFile(path)
       \/ \E filePath \in {<<"/", "a">>, <<"/", "c", "/", "a">>} :
              /\ panel.browsing
              /\ panel.selectedFile # Some(filePath)
              /\ panel' = [panel EXCEPT !.selectedFile = Some(filePath),
                                        !.fileFor = target]
              /\ issued' = {[channel |-> "readFile", target |-> target,
                             path |-> filePath, chosenFor |-> target]}
              /\ UNCHANGED notDetails
       \* onClose() of the FileViewer: setSelectedFile(null)
       \/ /\ panel.browsing
          /\ panel.selectedFile # Null
          /\ panel' = [panel EXCEPT !.selectedFile = Null]
          /\ issued' = {}
          /\ UNCHANGED notDetails

SpecDetails == Init /\ [][NextDetails]_vars

(***************************************************************************)
(* A listing from end to end: the request of the first FileTree is served  *)
(* by the listDir handler, and what the handler returns is the answer the  *)
(* FileTree's loadDirectory resumes with.                                  *)
(***************************************************************************)
NextListing ==
    \/ \E p \in {"ns/p1", "ns/p2"} : SelectPod(p)
    \/ BrowseFiles
    \* ipc.handle("listDir", ...) is invoked with the request's path
    \/ /\ inflight # <<>>
       /\ inflight[1].tree = 1
       /\ ListDirCall(<<"a">>, inflight[1].args.path)
    \/ \E outcome \in Awaited("detailed", OutputsOver(DetailedLines)) :
           ListDirDetailedDone(outcome)
    \/ \E outcome \in Awaited("fallback", OutputsOver(SimpleOutputLines)) :
           ListDirFallbackDone(outcome)
    \* ipc.invoke resolves with what the handler returned
    \/ /\ opc = "done"
       /\ inflight # <<>>
       /\ inflight[1].tree = 1
       /\ ListDirResponse(1, result.value)

SpecListing == Init /\ [][NextListing]_vars

(***************************************************************************)
(* Claims about the order of readFile's commands and about sorting.        *)
(***************************************************************************)

\* C33: readFile issues its commands in a fixed order: the size probe
\* `stat -c %s` first, then at most one sample `head -c 512`, then at most
\* one content fetch (`head -c <limit>` or `cat`). When the size probe fails
\* readFile returns its failure and issues nothing more, and no content
\* fetch follows for a file classified binary, by extension or by sample.
C33_CommandOrder ==
    (op.name = "readFile" /\ opc # "idle") =>
        /\ Len(Issued) \in 1..3
        /\ Issued[1].tool = "stat" /\ Issued[1].flags = <<"-c", "%s">>
        /\ Len(Issued) >= 2 =>
               /\ Issued[2].tool = "head"
               /\ Issued[2].count = <<512>>
        /\ Len(Issued) = 3 =>
               \/ Issued[3].tool = "cat"
               \/ Issued[3].tool = "head" /\ Issued[3].count = <<Cap>>
        /\ \A i \in 1..Len(Issued) : Issued[i].path = op.filePath
        /\ (Len(log) >= 1 /\ FailedAt(1)) =>
               /\ Len(Issued) = 1
               /\ opc = "done"
               /\ SurfacedAt(1)
        /\ HasKnownBinaryExtension(op.filePath) => Len(Issued) = 1
        /\ SampleHasNul => Len(Issued) = 2

\* C33 witness: a readFile that probed the size, fetched a sample without a
\* null byte and then fetched the content through `head -c <limit>`.
C33_Witness ==
    /\ op.name = "readFile"
    /\ opc = "done"
    /\ Len(log) = 3
    /\ log[2].outcome.ok
    /\ log[3].cmd.tool = "head"
    /\ result.value.success

\* Directory-first, then ascending by name in the order of localeCompare.
IsSorted(data) ==
    \A i, j \in 1..Len(data) :
        i < j =>
            /\ ~(~data[i].isDirectory /\ data[j].isDirectory)
            /\ data[i].isDirectory = data[j].isDirectory =>
                   LocaleCompare(data[i].name, data[j].name) <= 0

\* C32 (as claimed): the sequence the listDir handler returns is sorted
\* directory-first and then by name.
C32_ReturnedSorted ==
    (op.name = "listDir" /\ opc = "done" /\ result.value.success) =>
        IsSorted(result.value.data)

\* C32 (amended): the sequence the file tree stores after a successful load
\* is sorted directory-first and then by name; the handler returns the
\* entries in the order of the listing's lines.
C32_StoredSorted == tree # NoTree => IsSorted(tree.entries)

\* C32 witness: the file tree stored a listing of two entries in another
\* order than the handler returned them.
C32_Witness ==
    /\ tree # NoTree
    /\ ~tree.loading
    /\ opc = "done"
    /\ result.value.success
    /\ Len(tree.entries) = 2
    /\ tree.entries # result.value.data

(***************************************************************************)
(* Claims about the FileViewer.                                            *)
(***************************************************************************)

\* The save requests of the FileViewer that are in flight.
Saves ==
    {viewerRequests[i] : i \in {j \in 1..Len(viewerRequests) :
                                    viewerRequests[j].channel = "uploadFile"}}

\* The content stored is that of a binary or of a truncated file.
Unsavable(content) ==
    content # Null /\ (content[1].isBinary \/ content[1].truncated)

\* C31: a file shown as binary or as truncated is never saved back: no
\* uploadFile request is issued while the loaded content has isBinary or
\* truncated true, and while it has, the Save button is not offered.
C31_NeverSavedBack ==
    /\ \A r \in Saves : r.shown # Null /\ ~Unsavable(r.shown)
    /\ (viewer # NoViewer /\ Unsavable(viewer.content)) => ~viewer.isModified

\* C31 witness: the viewer shows the loaded head slice of a truncated file
\* while a save, issued when it showed a text file, is still in flight.
C31_Witness ==
    /\ viewer # NoViewer
    /\ ~viewer.loading
    /\ viewer.content # Null
    /\ viewer.content[1].truncated
    /\ Saves # {}

\* C36 (as claimed): every uploadFile request issued by Save carries a path
\* P and the text loaded, and edited, from what readFile returned for P.
C36_SavesOwnContent == \A r \in Saves : r.loadedFrom = r.path

\* C37 (as claimed): whenever no load and no save of the viewer is in flight
\* and content is loaded, the Modified flag is true exactly when the
\* editor's text differs from the stored content.
C37_ModifiedIsExact ==
    (/\ viewer # NoViewer
     /\ viewer.content # Null
     /\ ~viewer.loading
     /\ ~viewer.saving
     /\ \A i \in 1..Len(viewerRequests) : viewerRequests[i].view # viewer.id)
        => (viewer.isModified <=> viewer.editedContent # viewer.content[1].content)

(***************************************************************************)
(* Claims about navigation in the FileTree.                                *)
(***************************************************************************)

\* The path begins with "/" and ends with "/".
IsDirPath(path) == Len(path) >= 1 /\ path[1] = "/" /\ path[Len(path)] = "/"

\* C35 (as claimed): once no listDir request of the mounted file tree is
\* outstanding, what it shows, its error or else its entries, came from the
\* response for the current path.
C35_ShowsCurrentListing ==
    (/\ tree # NoTree
     /\ \A i \in InFlight("listDir") : inflight[i].tree # tree.id
     /\ \A i \in InFlight("uploadFile") \cup InFlight("readFileAsBase64") :
            inflight[i].tree # tree.id)
        => IF tree.error # Null
           THEN tree.errorFor = Some(page.currentPath)
           ELSE tree.entriesFor = Some(page.currentPath)

\* C38: the current path begins and ends with "/"; so does every path a
\* listing is requested for; every upload target is the current path of
\* the upload followed by the file's name, with one separator between them
\* and no doubled one; and parentPath of the current path is a path of the
\* same form, a proper prefix of the current path unless that is "/".
C38_PathForm ==
    /\ IsDirPath(page.currentPath)
    /\ \A i \in InFlight("listDir") : IsDirPath(inflight[i].args.path)
    /\ \A i \in InFlight("uploadFile") :
           LET args == inflight[i].args
           IN /\ IsDirPath(args.currentPath)
              /\ args.remotePath = args.currentPath \o args.name
              /\ ~Includes(args.remotePath, <<"/", "/">>)
              /\ parentPath(args.remotePath) = args.currentPath
    /\ LET parent == parentPath(page.currentPath)
       IN /\ IsDirPath(parent)
          /\ StartsWith(page.currentPath, parent)
          /\ page.currentPath # <<"/">> => Len(parent) < Len(page.currentPath)

\* C38 witness: an upload issued from a directory below the root, reached
\* by a click on an entry, while the tree is back on the parent directory.
C38_Witness ==
    /\ tree # NoTree
    /\ page.currentPath = <<"/">>
    /\ \E i \in InFlight("uploadFile") :
           inflight[i].args.remotePath = <<"/", "c", "/", "g">>

(***************************************************************************)
(* Claims about the target of the requests.                                *)
(***************************************************************************)

\* C34 (as claimed), for the pod detail panel: no listDir or readFile
\* request is issued against a pod and container with a path, other than
\* the "/" of a reset, or a selected file that was chosen while another pod
\* or container was browsed.
C34_NothingCarriesOver ==
    \A r \in issued :
        \/ r.chosenFor = r.target
        \/ r.channel = "listDir" /\ r.path = <<"/">>

====
